---- MODULE Spec2Model ----
(***************************************************************************)
(* Signaling and presence coordination layer of safepeer: the Room        *)
(* Durable Object (peer registry, relay, per-peer rate limit), the         *)
(* ConnectionLimiter Durable Object (per-IP room quota) and the Worker's   *)
(* join route in front of them.                                            *)
(***************************************************************************)
EXTENDS Integers, Sequences, FiniteSets, TLC

\* ------------------------------------------------------------ constants
MAX_MESSAGE_SIZE == 65536
MAX_SDP_SIZE == 16384
MAX_ICE_SIZE == 2048
MAX_CHAT_TEXT == 4096
MAX_PEERS_PER_ROOM == 20
PEER_MSG_LIMIT == 30
PEER_MSG_WINDOW == 10000
MAX_ROOMS_PER_IP == 10
CONNECTION_TTL == 7200000
MAX_NAME_SLICE == 32
MAX_TARGET_ID == 32

\* ------------------------------------------------------------ bounds
\* joins attempted during one run (beyond those of the initial scenario)
MaxJoins == 2
\* client frames handled during one run
MaxMsgs == 1
\* clock advances during one run
MaxTicks == 1
\* transport failures injected during one run
MaxBreaks == 1
\* sessions of a preloaded scenario that send, close or fail (the rest stay
\* connected and silent)
MaxActive == 1

\* ------------------------------------------------------------ helpers
Range(s) == {s[i] : i \in DOMAIN s}

Put(f, k, v) == (k :> v) @@ f

Drop(f, k) == [x \in DOMAIN f \ {k} |-> f[x]]

Min(a, b) == IF a < b THEN a ELSE b

\* String.prototype.slice(0, n)
Slice(s, n) == SubSeq(s, 1, Min(Len(s), n))

\* 'peer-' + n
PeerId(n) == "peer-" \o ToString(n)

\* ------------------------------------------------------------ JSON values
\* A JSON value as the handlers see it: its typeof class, its content and,
\* for a string, its length (for any other value, the length of its
\* JSON.stringify). Long strings carry a tag instead of their characters.
Undefined == [t |-> "undefined", v |-> "", len |-> 0]

Str(s) == [t |-> "string", v |-> s, len |-> Len(s)]

LongStr(tag, n) == [t |-> "string", v |-> tag, len |-> n]

Num(n) == [t |-> "number", v |-> ToString(n), len |-> Len(ToString(n))]

Obj(tag, n) == [t |-> "object", v |-> tag, len |-> n]

\* JavaScript truthiness of a JSON value
Truthy(x) ==
    /\ x.t \notin {"undefined", "null"}
    /\ ~(x.t = "string" /\ x.len = 0)
    /\ ~(x.t = "number" /\ x.v = "0")
    /\ ~(x.t = "boolean" /\ x.v = "false")

\* JSON.stringify(x).length (a string gains its two quotes)
JsonLen(x) == IF x.t = "string" THEN x.len + 2 ELSE x.len

\* ------------------------------------------------------------ server frames
Welcome(peerId, members) ==
    [type |-> "welcome", peerId |-> peerId, members |-> members]

PeerJoined(peerId, displayName) ==
    [type |-> "peer-joined", peerId |-> peerId, displayName |-> displayName]

PeerLeft(peerId) == [type |-> "peer-left", peerId |-> peerId]

ForwardSdp(type, from, sdp) == [type |-> type, from |-> from, sdp |-> sdp]

ForwardIce(from, candidate) ==
    [type |-> "ice-candidate", from |-> from, candidate |-> candidate]

ChatRelay(from, sender, text, timestamp) ==
    [type |-> "chat-relay", from |-> from, sender |-> sender, text |-> text,
     timestamp |-> timestamp]

ErrorFrame(message) == [type |-> "error", message |-> message]

\* ws.send(frame): the attempt, and whether the connection took it. Sending on
\* a connection whose transport has failed throws.
Send(ws, frame, broken) == [to |-> ws, frame |-> frame, ok |-> ws \notin broken]

\* ------------------------------------------------------------ Room
NoSocket == 0

EmptyMap == [x \in {} |-> 0]

\* Room.constructor
NewRoom == [sockets |-> << >>, nextId |-> 1, peerRates |-> EmptyMap]

\* state.getWebSockets(): the accepted connections, each with its attachment
getWebSockets(R) == R.sockets

Sockets(R) == {R.sockets[i].ws : i \in DOMAIN R.sockets}

\* ws.deserializeAttachment()
Attachment(R, ws) ==
    LET i == CHOOSE j \in DOMAIN R.sockets : R.sockets[j].ws = ws
    IN  R.sockets[i].att

\* Room.isPeerAllowed: the verdict and the rate map it leaves
isPeerAllowed_offByOne(rates, peerId, t) ==
    IF peerId \notin DOMAIN rates
       \/ t - rates[peerId].windowStart > PEER_MSG_WINDOW
    THEN [allowed |-> TRUE,
          rates |-> Put(rates, peerId, [count |-> 1, windowStart |-> t])]
    ELSE IF rates[peerId].count > PEER_MSG_LIMIT
    THEN [allowed |-> FALSE, rates |-> rates]
    ELSE [allowed |-> TRUE,
          rates |-> Put(rates, peerId,
                        [count |-> rates[peerId].count + 1,
                         windowStart |-> rates[peerId].windowStart])]

\* isPeerAllowed that also rejects while any peer of the room is at its limit
isPeerAllowed_anyPeer(rates, peerId, t) ==
    IF \E p \in DOMAIN rates :
          /\ rates[p].count >= PEER_MSG_LIMIT
          /\ ~(t - rates[p].windowStart > PEER_MSG_WINDOW)
    THEN [allowed |-> FALSE, rates |-> rates]
    ELSE IF peerId \notin DOMAIN rates
       \/ t - rates[peerId].windowStart > PEER_MSG_WINDOW
    THEN [allowed |-> TRUE,
          rates |-> Put(rates, peerId, [count |-> 1, windowStart |-> t])]
    ELSE [allowed |-> TRUE,
          rates |-> Put(rates, peerId,
                        [count |-> rates[peerId].count + 1,
                         windowStart |-> rates[peerId].windowStart])]

isPeerAllowed(rates, peerId, t) ==
    IF peerId \notin DOMAIN rates
       \/ t - rates[peerId].windowStart > PEER_MSG_WINDOW
    THEN [allowed |-> TRUE,
          rates |-> Put(rates, peerId, [count |-> 1, windowStart |-> t])]
    ELSE IF rates[peerId].count >= PEER_MSG_LIMIT
    THEN [allowed |-> FALSE, rates |-> rates]
    ELSE [allowed |-> TRUE,
          rates |-> Put(rates, peerId,
                        [count |-> rates[peerId].count + 1,
                         windowStart |-> rates[peerId].windowStart])]

\* findPeerSocket that falls back on the first connection of the Room
findPeerSocket_fallback(R, peerId) ==
    LET hits == {i \in DOMAIN R.sockets : R.sockets[i].att.peerId = peerId}
    IN  IF R.sockets = << >> THEN NoSocket
        ELSE IF hits = {} THEN R.sockets[1].ws
        ELSE R.sockets[CHOOSE i \in hits : \A j \in hits : i <= j].ws

\* Room.findPeerSocket: the first accepted connection attached to peerId
findPeerSocket(R, peerId) ==
    LET hits == {i \in DOMAIN R.sockets : R.sockets[i].att.peerId = peerId}
    IN  IF hits = {} THEN NoSocket
        ELSE R.sockets[CHOOSE i \in hits : \A j \in hits : i <= j].ws

RECURSIVE SendAll(_, _, _, _)
SendAll(socks, frame, exclude, broken) ==
    IF socks = << >> THEN << >>
    ELSE LET rest == SendAll(Tail(socks), frame, exclude, broken)
         IN  IF Head(socks).ws # exclude
             THEN <<Send(Head(socks).ws, frame, broken)>> \o rest
             ELSE rest

\* broadcast without the try / catch around send: the loop ends at the first
\* connection whose send throws
broadcast_uncaught(R, message, exclude, broken) ==
    LET all == SendAll(getWebSockets(R), message, exclude, broken)
        bad == {i \in DOMAIN all : ~all[i].ok}
    IN  IF bad = {} THEN all
        ELSE SubSeq(all, 1, CHOOSE i \in bad : \A j \in bad : i <= j)

\* Room.broadcast: one send per accepted connection other than `exclude`, in
\* getWebSockets() order; a failing send is caught
broadcast(R, message, exclude, broken) ==
    SendAll(getWebSockets(R), message, exclude, broken)

\* The outcome of one handler run: the Room it leaves, the sends it attempted
\* in order, the HTTP status (fetch only), whether it ended in an uncaught
\* exception, the disconnect request it issued to the limiter (close only), and
\* how the rate check went ("none": not reached, "passed", "limited").
NoNotice == [ip |-> "", roomCode |-> "", shard |-> "", reply |-> "", threw |-> FALSE]

Outcome(R, sends, status, threw, notice) ==
    [room |-> R, sent |-> sends, status |-> status, threw |-> threw,
     notice |-> notice, rate |-> "none"]

Rated(out, r) == [out EXCEPT !.rate = r]

\* The member list of the welcome frame: one entry per accepted connection
existingMembers(R) ==
    [i \in DOMAIN getWebSockets(R) |->
        [peerId |-> R.sockets[i].att.peerId,
         displayName |-> R.sockets[i].att.displayName]]

Accept(R, ws, att) == [R EXCEPT !.sockets = Append(@, [ws |-> ws, att |-> att])]

\* Room.fetch with the accept moved before the snapshot and the capacity test
\* loosened: the two slips the text guards against
fetch_snapshotAfterAccept(R, ws, name, ip, roomParam, broken) ==
    LET displayName == Slice(IF name = "" THEN "Anonymous" ELSE name, MAX_NAME_SLICE)
        clientIP == IF ip = "" THEN "unknown" ELSE ip
        peerId == PeerId(R.nextId)
        att == [peerId |-> peerId, displayName |-> displayName,
                clientIP |-> clientIP, roomCode |-> roomParam]
        R1 == Accept([R EXCEPT !.nextId = @ + 1], ws, att)
    IN  IF Len(getWebSockets(R)) >= MAX_PEERS_PER_ROOM
        THEN Outcome(R, << >>, 403, FALSE, NoNotice)
        ELSE Outcome(R1,
                     <<Send(ws, Welcome(peerId, existingMembers(R1)), broken)>>
                        \o broadcast(R1, PeerJoined(peerId, displayName), ws, broken),
                     101, FALSE, NoNotice)

fetch_capacityOffByOne(R, ws, name, ip, roomParam, broken) ==
    LET displayName == Slice(IF name = "" THEN "Anonymous" ELSE name, MAX_NAME_SLICE)
        clientIP == IF ip = "" THEN "unknown" ELSE ip
        peerId == PeerId(R.nextId)
        att == [peerId |-> peerId, displayName |-> displayName,
                clientIP |-> clientIP, roomCode |-> roomParam]
        R1 == Accept([R EXCEPT !.nextId = @ + 1], ws, att)
    IN  IF Len(getWebSockets(R)) > MAX_PEERS_PER_ROOM
        THEN Outcome(R, << >>, 403, FALSE, NoNotice)
        ELSE Outcome(R1,
                     <<Send(ws, Welcome(peerId, existingMembers(R)), broken)>>
                        \o broadcast(R1, PeerJoined(peerId, displayName), ws, broken),
                     101, FALSE, NoNotice)

fetch_broadcastToAll(R, ws, name, ip, roomParam, broken) ==
    LET displayName == Slice(IF name = "" THEN "Anonymous" ELSE name, MAX_NAME_SLICE)
        clientIP == IF ip = "" THEN "unknown" ELSE ip
        peerId == PeerId(R.nextId)
        att == [peerId |-> peerId, displayName |-> displayName,
                clientIP |-> clientIP, roomCode |-> roomParam]
        R1 == Accept([R EXCEPT !.nextId = @ + 1], ws, att)
    IN  IF Len(getWebSockets(R)) >= MAX_PEERS_PER_ROOM
        THEN Outcome(R, << >>, 403, FALSE, NoNotice)
        ELSE Outcome(R1,
                     <<Send(ws, Welcome(peerId, existingMembers(R)), broken)>>
                        \o broadcast(R1, PeerJoined(peerId, displayName), NoSocket, broken),
                     101, FALSE, NoNotice)

\* Room.fetch: `ws` is the server end of the new WebSocketPair; name, ip and
\* roomParam are the request's query parameters ("" when absent)
fetch(R, ws, name, ip, roomParam, broken) ==
    LET displayName == Slice(IF name = "" THEN "Anonymous" ELSE name, MAX_NAME_SLICE)
        clientIP == IF ip = "" THEN "unknown" ELSE ip
        peerId == PeerId(R.nextId)
        att == [peerId |-> peerId, displayName |-> displayName,
                clientIP |-> clientIP, roomCode |-> roomParam]
        R1 == Accept([R EXCEPT !.nextId = @ + 1], ws, att)
    IN  IF Len(getWebSockets(R)) >= MAX_PEERS_PER_ROOM
        THEN Outcome(R, << >>, 403, FALSE, NoNotice)
        ELSE Outcome(R1,
                     <<Send(ws, Welcome(peerId, existingMembers(R)), broken)>>
                        \o broadcast(R1, PeerJoined(peerId, displayName), ws, broken),
                     101, FALSE, NoNotice)

\* ------------------------------------------------------------ client frames
\* A frame as received by webSocketMessage: its length in characters, how
\* JSON.parse fares on it ("invalid": it throws; "null": the JSON null;
\* "other": a number, string, boolean or array; "object") and, for an object,
\* the fields the handler reads (Undefined when absent).
ClientFrame(len, parsed, type, to, from, sdp, candidate, text) ==
    [len |-> len, parsed |-> parsed, type |-> type, to |-> to, from |-> from,
     sdp |-> sdp, candidate |-> candidate, text |-> text]

\* ws.send of an error frame to the sender, ending the handler
Reply(R, ws, message, broken) ==
    Outcome(R, <<Send(ws, ErrorFrame(message), broken)>>, 0, ws \in broken, NoNotice)

\* the offer / answer / ice-candidate case
Signal_fromPayload(R, ws, senderInfo, data, broken) ==
    LET targetId == data.to
        targetWs == findPeerSocket(R, targetId.v)
    IN  IF ~Truthy(targetId) \/ targetId.t # "string" \/ targetId.len > MAX_TARGET_ID
        THEN Reply(R, ws, "Invalid target", broken)
        ELSE IF targetWs = NoSocket
        THEN Reply(R, ws, "Failed to deliver message", broken)
        ELSE IF data.type.v \in {"offer", "answer"}
        THEN IF data.sdp.t # "string" \/ data.sdp.len > MAX_SDP_SIZE
             THEN Reply(R, ws, "Invalid SDP", broken)
             ELSE Outcome(R, <<Send(targetWs,
                                    ForwardSdp(data.type.v,
                                               IF data.from.t = "string"
                                               THEN data.from.v
                                               ELSE senderInfo.peerId,
                                               data.sdp),
                                    broken)>>,
                          0, targetWs \in broken, NoNotice)
        ELSE IF JsonLen(IF Truthy(data.candidate) THEN data.candidate ELSE Str(""))
                   > MAX_ICE_SIZE
             THEN Reply(R, ws, "Invalid ICE candidate", broken)
             ELSE Outcome(R, <<Send(targetWs,
                                    ForwardIce(senderInfo.peerId, data.candidate),
                                    broken)>>,
                          0, targetWs \in broken, NoNotice)

\* the offer / answer / ice-candidate case forwarding an sdp string of any
\* length
Signal_anySdp(R, ws, senderInfo, data, broken) ==
    LET targetId == data.to
        targetWs == findPeerSocket(R, targetId.v)
    IN  IF ~Truthy(targetId) \/ targetId.t # "string" \/ targetId.len > MAX_TARGET_ID
        THEN Reply(R, ws, "Invalid target", broken)
        ELSE IF targetWs = NoSocket
        THEN Reply(R, ws, "Failed to deliver message", broken)
        ELSE IF data.type.v \in {"offer", "answer"}
        THEN IF data.sdp.t # "string"
             THEN Reply(R, ws, "Invalid SDP", broken)
             ELSE Outcome(R, <<Send(targetWs,
                                    ForwardSdp(data.type.v, senderInfo.peerId,
                                               data.sdp),
                                    broken)>>,
                          0, targetWs \in broken, NoNotice)
        ELSE IF JsonLen(IF Truthy(data.candidate) THEN data.candidate ELSE Str(""))
                   > MAX_ICE_SIZE
             THEN Reply(R, ws, "Invalid ICE candidate", broken)
             ELSE Outcome(R, <<Send(targetWs,
                                    ForwardIce(senderInfo.peerId, data.candidate),
                                    broken)>>,
                          0, targetWs \in broken, NoNotice)

Signal(R, ws, senderInfo, data, broken) ==
    LET targetId == data.to
        targetWs == findPeerSocket(R, targetId.v)
    IN  IF ~Truthy(targetId) \/ targetId.t # "string" \/ targetId.len > MAX_TARGET_ID
        THEN Reply(R, ws, "Invalid target", broken)
        ELSE IF targetWs = NoSocket
        THEN Reply(R, ws, "Failed to deliver message", broken)
        ELSE IF data.type.v \in {"offer", "answer"}
        THEN IF data.sdp.t # "string" \/ data.sdp.len > MAX_SDP_SIZE
             THEN Reply(R, ws, "Invalid SDP", broken)
             ELSE Outcome(R, <<Send(targetWs,
                                    ForwardSdp(data.type.v, senderInfo.peerId,
                                               data.sdp),
                                    broken)>>,
                          0, targetWs \in broken, NoNotice)
        ELSE IF JsonLen(IF Truthy(data.candidate) THEN data.candidate ELSE Str(""))
                   > MAX_ICE_SIZE
             THEN Reply(R, ws, "Invalid ICE candidate", broken)
             ELSE Outcome(R, <<Send(targetWs,
                                    ForwardIce(senderInfo.peerId, data.candidate),
                                    broken)>>,
                          0, targetWs \in broken, NoNotice)

\* the chat case
Chat_echo(R, ws, senderInfo, data, t, broken) ==
    IF data.text.t # "string" \/ data.text.len = 0 \/ data.text.len > MAX_CHAT_TEXT
    THEN Reply(R, ws, "Invalid message text", broken)
    ELSE Outcome(R, broadcast(R, ChatRelay(senderInfo.peerId, senderInfo.displayName,
                                           data.text, t \div 1000),
                              NoSocket, broken),
                 0, FALSE, NoNotice)

Chat(R, ws, senderInfo, data, t, broken) ==
    IF data.text.t # "string" \/ data.text.len = 0 \/ data.text.len > MAX_CHAT_TEXT
    THEN Reply(R, ws, "Invalid message text", broken)
    ELSE Outcome(R, broadcast(R, ChatRelay(senderInfo.peerId, senderInfo.displayName,
                                           [data.text EXCEPT
                                               !.len = Min(@, MAX_CHAT_TEXT)],
                                           t \div 1000),
                              ws, broken),
                 0, FALSE, NoNotice)

\* the default case, with the type appended to the error text
UnknownType_echo(R, ws, data, broken) ==
    Reply(R, ws, "Unknown message type: " \o data.type.v, broken)

\* the default case
UnknownType(R, ws, data, broken) == Reply(R, ws, "Unknown message type", broken)

\* Room.webSocketMessage checking the rate limit before it parses the frame
webSocketMessage_countFirst(R, ws, message, t, broken) ==
    IF message.len > MAX_MESSAGE_SIZE
    THEN Reply(R, ws, "Message too large", broken)
    ELSE LET senderInfo == Attachment(R, ws)
             verdict == isPeerAllowed(R.peerRates, senderInfo.peerId, t)
             R1 == [R EXCEPT !.peerRates = verdict.rates]
         IN  IF ~verdict.allowed
             THEN Rated(Reply(R1, ws, "Rate limited. Slow down.", broken), "limited")
             ELSE IF message.parsed = "invalid"
             THEN Reply(R1, ws, "Invalid message", broken)
             ELSE Rated(
                 IF message.parsed = "null"
                 THEN Outcome(R1, << >>, 0, TRUE, NoNotice)
                 ELSE IF message.parsed # "object" \/ message.type.t # "string"
                 THEN Reply(R1, ws, "Invalid message", broken)
                 ELSE IF message.type.v \in {"offer", "answer", "ice-candidate"}
                 THEN Signal(R1, ws, senderInfo, message, broken)
                 ELSE IF message.type.v = "chat"
                 THEN Chat(R1, ws, senderInfo, message, t, broken)
                 ELSE UnknownType(R1, ws, message, broken),
                 "passed")

\* Room.webSocketMessage at time t
webSocketMessage(R, ws, message, t, broken) ==
    IF message.len > MAX_MESSAGE_SIZE
    THEN Reply(R, ws, "Message too large", broken)
    ELSE IF message.parsed = "invalid"
    THEN Reply(R, ws, "Invalid message", broken)
    ELSE LET senderInfo == Attachment(R, ws)
             verdict == isPeerAllowed(R.peerRates, senderInfo.peerId, t)
             R1 == [R EXCEPT !.peerRates = verdict.rates]
         IN  IF ~verdict.allowed
             THEN Rated(Reply(R1, ws, "Rate limited. Slow down.", broken), "limited")
             ELSE Rated(
                 IF message.parsed = "null"
                 THEN Outcome(R1, << >>, 0, TRUE, NoNotice)
                 ELSE IF message.parsed # "object" \/ message.type.t # "string"
                 THEN Reply(R1, ws, "Invalid message", broken)
                 ELSE IF message.type.v \in {"offer", "answer", "ice-candidate"}
                 THEN Signal(R1, ws, senderInfo, message, broken)
                 ELSE IF message.type.v = "chat"
                 THEN Chat(R1, ws, senderInfo, message, t, broken)
                 ELSE UnknownType(R1, ws, message, broken),
                 "passed")

\* ------------------------------------------------------------ disconnect
\* A 32-bit integer as its two 16-bit halves <<high, low>> (TLC's integers are
\* no wider than the hash)
HALF == 65536

Abs(x) == IF x < 0 THEN -x ELSE x

\* ip.charCodeAt(i) for strings of digits, lower-case letters, '.' and ':'
CharCodes(ip) ==
    [i \in 1..Len(ip) |->
        LET ch == SubSeq(ip, i, i)
        IN  CASE ch = "." -> 46
              [] ch = ":" -> 58
              [] \E d \in 1..10 : SubSeq("0123456789", d, d) = ch ->
                    47 + (CHOOSE d \in 1..10 : SubSeq("0123456789", d, d) = ch)
              [] OTHER ->
                    96 + (CHOOSE a \in 1..26 :
                            SubSeq("abcdefghijklmnopqrstuvwxyz", a, a) = ch)]

\* ((hash << 5) - hash + code) | 0, on the halves: 31 * hash + code modulo 2^32
HashStep(hash, code) ==
    LET low == hash[2] * 31 + code
    IN  <<((hash[1] * 31) + (low \div HALF)) % HALF, low % HALF>>

RECURSIVE HashFrom(_, _)
HashFrom(hash, codes) ==
    IF codes = << >> THEN hash
    ELSE HashFrom(HashStep(hash, Head(codes)), Tail(codes))

\* Math.abs(hash) % 16 of the signed value of the halves: negative when the
\* top bit is set, and then |hash| = 2^32 - unsigned
AbsMod16(hash) ==
    IF hash[1] >= HALF \div 2
    THEN (16 - (hash[2] % 16)) % 16
    ELSE hash[2] % 16

SHARDS == 16

\* ipShard without Math.abs: the remainder keeps the sign of the hash
ipShard_noAbs(ip) ==
    LET hash == HashFrom(<<0, 0>>, CharCodes(ip))
    IN  "shard-" \o ToString(IF hash[1] >= HALF \div 2
                             THEN 0 - ((16 - (hash[2] % 16)) % 16)
                             ELSE hash[2] % 16)

\* ipShard
ipShard(ip) == "shard-" \o ToString(AbsMod16(HashFrom(<<0, 0>>, CharCodes(ip))) % SHARDS)

\* notifyDisconnect without its try / catch
notifyDisconnect_uncaught(clientIP, roomCode, reply) ==
    IF clientIP = "" \/ roomCode = "" \/ clientIP = "unknown"
    THEN NoNotice
    ELSE [ip |-> clientIP, roomCode |-> roomCode, shard |-> ipShard(clientIP),
          reply |-> reply, threw |-> reply = "throws"]

\* Room.notifyDisconnect: the request sent to the limiter, if any, with what
\* became of it; nothing is thrown to the caller
notifyDisconnect(clientIP, roomCode, reply) ==
    IF clientIP = "" \/ roomCode = "" \/ clientIP = "unknown"
    THEN NoNotice
    ELSE [ip |-> clientIP, roomCode |-> roomCode, shard |-> ipShard(clientIP),
          reply |-> reply, threw |-> FALSE]

\* the platform drops a closed connection from getWebSockets()
Detach(R, ws) ==
    [R EXCEPT !.sockets = SelectSeq(@, LAMBDA s : s.ws # ws)]

\* Room.webSocketClose (webSocketError has the same body); reply is what
\* becomes of the request notifyDisconnect sends
webSocketClose_keepRate(R, ws, broken, reply) ==
    LET info == Attachment(R, ws)
        notice == notifyDisconnect(info.clientIP, info.roomCode, reply)
    IN  Outcome(Detach(R, ws),
                broadcast(R, PeerLeft(info.peerId), ws, broken),
                0, notice.threw, notice)

webSocketClose_silent(R, ws, broken, reply) ==
    LET info == Attachment(R, ws)
        R1 == [R EXCEPT !.peerRates = Drop(@, info.peerId)]
        notice == notifyDisconnect(info.clientIP, info.roomCode, reply)
    IN  Outcome(Detach(R1, ws), << >>, 0, notice.threw, notice)

webSocketClose(R, ws, broken, reply) ==
    LET info == Attachment(R, ws)
        R1 == [R EXCEPT !.peerRates = Drop(@, info.peerId)]
        notice == notifyDisconnect(info.clientIP, info.roomCode, reply)
    IN  Outcome(Detach(R1, ws),
                broadcast(R1, PeerLeft(info.peerId), ws, broken),
                0, notice.threw, notice)

\* webSocketError that tells the limiter nothing
webSocketError_noNotice(R, ws, broken, reply) ==
    [webSocketClose(R, ws, broken, reply) EXCEPT !.notice = NoNotice]

webSocketError(R, ws, broken, reply) == webSocketClose(R, ws, broken, reply)

\* what may become of the request the close of ws sends to the limiter stub:
\* the limiter serves it, the fetch resolves without the limiter having
\* served it, or the fetch throws; "" when the close sends no request
StubReplies(R, ws) ==
    IF notifyDisconnect(Attachment(R, ws).clientIP, Attachment(R, ws).roomCode, "")
          = NoNotice
    THEN {""}
    ELSE {"delivered", "failed", "throws"}

\* ------------------------------------------------------------ signaling client
\* The client's record of the room, frontend/app.js: myPeerId, peerNames and,
\* for every peer connection in `peers`, whether the client created it as the
\* initiator (it then sends the offer)
NewClient == [me |-> "", names |-> EmptyMap, peers |-> EmptyMap]

\* createPeerConnection
createPeerConnection(c, peerId, isInitiator) ==
    [c EXCEPT !.peers = Put(@, peerId, isInitiator)]

\* the loop over data.members of the welcome case
RECURSIVE PutAll(_, _)
PutAll(c, members) ==
    IF members = << >> THEN c
    ELSE PutAll(createPeerConnection(
                    [c EXCEPT !.names = Put(@, Head(members).peerId,
                                            Head(members).displayName)],
                    Head(members).peerId, TRUE),
                Tail(members))

\* handleSignalingMessage, with handleOffer and handlePeerLeft
handleSignalingMessage(c, data) ==
    CASE data.type = "welcome" ->
            PutAll([c EXCEPT !.me = data.peerId], data.members)
      [] data.type = "peer-joined" ->
            [c EXCEPT !.names = Put(@, data.peerId, data.displayName)]
      [] data.type = "peer-left" ->
            [c EXCEPT !.names = Drop(@, data.peerId),
                      !.peers = Drop(@, data.peerId)]
      [] data.type = "offer" ->
            createPeerConnection(c, data.from, FALSE)
      [] OTHER -> c

\* every frame a connection took reaches its client, in order
RECURSIVE Deliver(_, _)
Deliver(clients, sends) ==
    IF sends = << >> THEN clients
    ELSE LET s == Head(sends)
         IN  Deliver(IF s.ok /\ s.to \in DOMAIN clients
                     THEN [clients EXCEPT ![s.to] = handleSignalingMessage(@, s.frame)]
                     ELSE clients,
                     Tail(sends))

\* ------------------------------------------------------------ state
VARIABLES
    room,       \* the Room object: accepted connections, nextId, peerRates
    now,        \* Date.now()
    broken,     \* connections whose transport failed, close/error not yet handled
    sent,       \* the sends attempted by the last handler run, in order
    last,       \* the last handler run: what it was given (the Room, the time, the
                \* failed connections, the frame) and how it ended
    clients,    \* per connection, the client's record of the room
    acceptLog,  \* <<peerId, time>> -> frames of peerId that passed the rate check then
    nextWs,     \* the next connection handle
    base,       \* connections of the initial scenario
    budget,     \* joins, frames, clock advances and failures left in this run
    deployment, \* the Worker with its Durable Objects: the Rooms by canonical
                \* code, the Router's join RateLimiter, the ConnectionLimiter
                \* shards, the next connection handle, the last response and,
                \* per connection, the address and room it was admitted for
    limiter,    \* one ConnectionLimiter object: its connections map, the last
                \* request it served, and the joins between their check and
                \* their connect
    probe       \* a pure function under test: its input and its result

vars == <<room, now, broken, sent, last, clients, acceptLog, nextWs, base, budget,
          deployment, limiter, probe>>

U == Undefined

NoFrame == ClientFrame(0, "none", U, U, U, U, U, U)

Ran(op, ws, pre, message, out) ==
    [op |-> op, ws |-> ws, pre |-> pre, at |-> now, failed |-> broken,
     message |-> message,
     status |-> out.status, threw |-> out.threw, notice |-> out.notice,
     rate |-> out.rate]

\* connections that send, close or fail in a run
Active(ws) == ws > base \/ ws <= MaxActive

\* connections whose transport fails in a run of frame exchange: the first,
\* which sends, and the third, which only receives
Fragile(ws) == ws \in {1, 3}

\* ------------------------------------------------------------ inputs
\* the query parameters a join request may carry
JoinRequests ==
    { [name |-> "Alice", ip |-> "", roomParam |-> ""],
      [name |-> "Bob", ip |-> "1.2.3.4", roomParam |-> "GATE2345"],
      [name |-> "Maximilian-Alexander-von-Hohenzollern", ip |-> "", roomParam |-> ""] }

Frame(type, to, from, sdp, candidate, text) ==
    ClientFrame(64 + type.len + to.len + from.len + sdp.len + candidate.len + text.len,
                "object", type, to, from, sdp, candidate, text)

\* peer ids a client addresses: those of the sessions and one that names
\* nobody
TargetIds(R) ==
    {R.sockets[i].att.peerId : i \in DOMAIN R.sockets} \cup {"peer-99"}

SignalFrames(R) ==
    {Frame(Str(ty), Str(id), U, Str("v=0"), U, U) :
        ty \in {"offer", "answer"}, id \in TargetIds(R)}
    \cup {Frame(Str("answer"), Str(id), Str("peer-99"), Str("v=0"), U, U) :
        id \in TargetIds(R)}
    \cup {Frame(Str("ice-candidate"), Str(id), U, U, c, U) :
        id \in TargetIds(R),
        c \in {Obj("candidate", 120), Obj("candidate", MAX_ICE_SIZE + 1), U}}
    \cup {Frame(Str("offer"), Str(id), U, sdp, U, U) :
        id \in TargetIds(R),
        sdp \in {U, Num(7), LongStr("sdp", MAX_SDP_SIZE),
                 LongStr("sdp", MAX_SDP_SIZE + 1)}}
    \cup {Frame(Str("offer"), to, U, Str("v=0"), U, U) :
        to \in {U, Str(""), Num(7), LongStr("id", MAX_TARGET_ID + 1)}}

ChatFrames ==
    {Frame(Str("chat"), U, U, U, U, text) :
        text \in {Str("hi"), Str(""), U, Num(5), LongStr("text", MAX_CHAT_TEXT),
                  LongStr("text", MAX_CHAT_TEXT + 1),
                  LongStr("text", MAX_MESSAGE_SIZE)}}

OtherFrames ==
    {Frame(type, U, U, U, U, U) : type \in {Str("ping"), Str("welcome"), U, Num(1)}}
    \cup {ClientFrame(n, parsed, U, U, U, U, U, U) :
            n \in {4}, parsed \in {"invalid", "null", "other"}}

ClientFrames(R) == SignalFrames(R) \cup ChatFrames \cup OtherFrames

\* clock advances
TickSteps == {1, PEER_MSG_WINDOW}

\* ------------------------------------------------------------ initial states
AnonymousJoin == [name |-> "", ip |-> "", roomParam |-> ""]

\* The Room and its clients after the join requests `reqs` were served in
\* order, on connections 1, 2, ..; the clients followed are those of the
\* active connections
RECURSIVE After(_, _)
After(reqs, n) ==
    IF n = 0 THEN [room |-> NewRoom, clients |-> EmptyMap]
    ELSE LET before == After(reqs, n - 1)
             out == fetch(before.room, n, reqs[n].name, reqs[n].ip,
                          reqs[n].roomParam, {})
         IN  [room |-> out.room,
              clients |-> Deliver(IF n <= MaxActive
                                  THEN Put(before.clients, n, NewClient)
                                  ELSE before.clients,
                                  out.sent)]

Budget(j, m, t, b) == [joins |-> j, msgs |-> m, ticks |-> t, breaks |-> b]

\* a ConnectionLimiter before its first request
NoQuotaRequest ==
    [path |-> "", ip |-> "", roomCode |-> "", at |-> 0, pre |-> EmptyMap,
     status |-> 0, allowed |-> FALSE, count |-> 0, limit |-> 0]

NewLimiter ==
    [connections |-> EmptyMap, last |-> NoQuotaRequest, permits |-> EmptyMap,
     disciplined |-> TRUE]

\* no function applied yet
NoProbe ==
    [input |-> "", typed |-> 0, output |-> "", first |-> "", calls |-> 0,
     display |-> "", bytes |-> << >>]

\* the Worker before its first request; asked, before and forwarded are the
\* code parameter of the last request, the Rooms before it, and the name of
\* the Room instance it was forwarded to ("" when it was not forwarded); gate
\* is the route and time of the last request with the RateLimiter entry its
\* address had before it (count 0 when it had none), and admitted counts the requests a
\* RateLimiter let through, by route, address and time; event is the last
\* event a Room handled (join, message or close, with the Room's name, the
\* connection and, for a message, its type and target) and frames what the
\* Room sent in handling it
NewDeployment ==
    [rooms |-> EmptyMap, joinLimiter |-> EmptyMap, limiters |-> EmptyMap,
     nextWs |-> 1, response |-> 0, origin |-> EmptyMap,
     asked |-> "", before |-> EmptyMap, forwarded |-> "",
     createLimiter |-> EmptyMap, created |-> [room_code |-> "", canonical |-> ""],
     gate |-> [route |-> "", ip |-> "", at |-> 0, count |-> 0, windowStart |-> 0],
     admitted |-> EmptyMap,
     event |-> [op |-> "", room |-> "", ws |-> 0, type |-> "", to |-> ""],
     frames |-> << >>]

Start(reqs, R, t, log, b) ==
    /\ room = R
    /\ now = t
    /\ broken = {}
    /\ sent = << >>
    /\ last = Ran("init", NoSocket, R, NoFrame, Outcome(R, << >>, 0, FALSE, NoNotice))
    /\ clients = After(reqs, Len(reqs)).clients
    /\ acceptLog = log
    /\ nextWs = Len(reqs) + 1
    /\ base = Len(reqs)
    /\ budget = b
    /\ deployment = NewDeployment
    /\ limiter = NewLimiter
    /\ probe = NoProbe

\* a fresh Room, and a Room one short of full
Init ==
    \/ Start(<< >>, NewRoom, 0, EmptyMap, Budget(MaxJoins, 0, 0, MaxBreaks))
    \/ LET reqs == [i \in 1..(MAX_PEERS_PER_ROOM - 1) |-> AnonymousJoin]
       IN  Start(reqs, After(reqs, Len(reqs)).room, 0, EmptyMap,
                 Budget(MaxJoins, 0, 0, MaxBreaks))

\* ------------------------------------------------------------ actions
Finish(op, ws, message, out) ==
    /\ UNCHANGED <<deployment, limiter, probe>>
    /\ room' = out.room
    /\ sent' = out.sent
    /\ last' = Ran(op, ws, room, message, out)

\* a join request reaches Room.fetch
Join(req) ==
    /\ budget.joins > 0
    /\ LET out == fetch(room, nextWs, req.name, req.ip, req.roomParam, broken)
       IN  /\ Finish("join", nextWs, NoFrame, out)
           /\ clients' = IF out.status = 101
                         THEN Deliver(Put(clients, nextWs, NewClient), out.sent)
                         ELSE clients
           /\ nextWs' = IF out.status = 101 THEN nextWs + 1 ELSE nextWs
    /\ budget' = [budget EXCEPT !.joins = @ - 1]
    /\ UNCHANGED <<now, broken, acceptLog, base>>

\* a frame from a joined peer reaches Room.webSocketMessage
Message(ws, message) ==
    /\ budget.msgs > 0
    /\ ws \in Sockets(room) \ broken
    /\ LET out == webSocketMessage(room, ws, message, now, broken)
           key == <<Attachment(room, ws).peerId, now>>
       IN  /\ Finish("message", ws, message, out)
           /\ clients' = Deliver(clients, out.sent)
           /\ acceptLog' = IF out.rate = "passed"
                           THEN Put(acceptLog, key,
                                    IF key \in DOMAIN acceptLog
                                    THEN acceptLog[key] + 1 ELSE 1)
                           ELSE acceptLog
    /\ budget' = [budget EXCEPT !.msgs = @ - 1]
    /\ UNCHANGED <<now, broken, nextWs, base>>

\* a connection closes: Room.webSocketClose
Close(ws) ==
    /\ ws \in Sockets(room)
    /\ Active(ws)
    /\ \E reply \in StubReplies(room, ws) :
          LET out == webSocketClose(room, ws, broken, reply)
          IN  /\ Finish("close", ws, NoFrame, out)
              /\ clients' = Deliver(Drop(clients, ws), out.sent)
    /\ broken' = broken \ {ws}
    /\ UNCHANGED <<now, acceptLog, nextWs, base, budget>>

\* a failed connection is reported: Room.webSocketError
Error(ws) ==
    /\ ws \in Sockets(room) \cap broken
    /\ \E reply \in StubReplies(room, ws) :
          LET out == webSocketError(room, ws, broken, reply)
          IN  /\ Finish("error", ws, NoFrame, out)
              /\ clients' = Deliver(Drop(clients, ws), out.sent)
    /\ broken' = broken \ {ws}
    /\ UNCHANGED <<now, acceptLog, nextWs, base, budget>>

\* the close callback fires for the connection whose error callback has just
\* run: the attachment of the connection is still readable, and
\* getWebSockets() returns the other connections
CloseAfterError ==
    /\ last.op = "error"
    /\ LET ws == last.ws
           R == [room EXCEPT
                    !.sockets = Append(@, [ws |-> ws, att |-> Attachment(last.pre, ws)])]
       IN  \E reply \in StubReplies(R, ws) :
              LET out == webSocketClose(R, ws, broken, reply)
              IN  /\ Finish("close", ws, NoFrame, out)
                  /\ clients' = Deliver(clients, out.sent)
    /\ UNCHANGED <<now, broken, acceptLog, nextWs, base, budget>>

\* a connection's transport fails; the Room has not been told yet
Break(ws) ==
    /\ budget.breaks > 0
    /\ ws \in Sockets(room) \ broken
    /\ broken' = broken \cup {ws}
    /\ budget' = [budget EXCEPT !.breaks = @ - 1]
    /\ UNCHANGED <<room, now, sent, last, clients, acceptLog, nextWs, base,
                   deployment, limiter, probe>>

\* time passes
Tick(d) ==
    /\ budget.ticks > 0
    /\ now' = now + d
    /\ budget' = [budget EXCEPT !.ticks = @ - 1]
    /\ UNCHANGED <<room, broken, sent, last, clients, acceptLog, nextWs, base,
                   deployment, limiter, probe>>

Next ==
    \/ \E req \in JoinRequests : Join(req)
    \/ \E ws \in Sockets(room) : Close(ws)
    \/ \E ws \in Sockets(room) : Error(ws)
    \/ \E ws \in {w \in Sockets(room) : Active(w)} : Break(ws)

\* joins, closes and failures of one Room
Spec == Init /\ [][Next]_vars

\* the Room, evicted from memory while its connections hibernate, is
\* constructed again for the next event: the accepted connections and their
\* attachments are kept by the runtime, the fields of the object are not
Wake ==
    /\ room.sockets # << >>
    /\ room # [NewRoom EXCEPT !.sockets = room.sockets]
    /\ Finish("wake", NoSocket, NoFrame,
              Outcome([NewRoom EXCEPT !.sockets = room.sockets],
                      << >>, 0, FALSE, NoNotice))
    /\ UNCHANGED <<now, broken, clients, acceptLog, nextWs, base, budget>>

NextWake ==
    \/ Next
    \/ Wake

\* joins, closes and failures of one Room that hibernates in between
SpecWake == Init /\ [][NextWake]_vars

\* a Room of three sessions exchanging frames
RelayJoins ==
    << [name |-> "Alice", ip |-> "", roomParam |-> ""],
       [name |-> "Bob", ip |-> "1.2.3.4", roomParam |-> "GATE2345"],
       AnonymousJoin >>

InitRelay ==
    Start(RelayJoins, After(RelayJoins, Len(RelayJoins)).room, 0, EmptyMap,
          Budget(0, MaxMsgs, MaxTicks, MaxBreaks))

NextRelay ==
    \/ \E ws \in {w \in Sockets(room) : Active(w)} :
          \E message \in ClientFrames(room) : Message(ws, message)
    \/ \E ws \in Sockets(room) : Close(ws)
    \/ \E ws \in Sockets(room) : Error(ws)
    \/ \E ws \in {w \in Sockets(room) : Fragile(w)} : Break(ws)
    \/ \E d \in TickSteps : Tick(d)

SpecRelay == InitRelay /\ [][NextRelay]_vars

\* a Room of three sessions, any of which may fail before a join or a close
InitCast ==
    Start(RelayJoins, After(RelayJoins, Len(RelayJoins)).room, 0, EmptyMap,
          Budget(1, 0, 0, MaxBreaks))

NextCast ==
    \/ \E req \in JoinRequests : Join(req)
    \/ \E ws \in Sockets(room) : Close(ws)
    \/ \E ws \in Sockets(room) : Error(ws)
    \/ \E ws \in Sockets(room) : Break(ws)
    \/ CloseAfterError

SpecCast == InitCast /\ [][NextCast]_vars

\* ------------------------------------------------------------ rate windows
\* frames of the peer that passed the rate check at a time in [from, to)
RECURSIVE SumLog(_, _)
SumLog(log, keys) ==
    IF keys = {} THEN 0
    ELSE LET k == CHOOSE x \in keys : TRUE
         IN  log[k] + SumLog(log, keys \ {k})

AcceptedIn(peerId, from, to) ==
    SumLog(acceptLog,
           {k \in DOMAIN acceptLog : k[1] = peerId /\ k[2] >= from /\ k[2] < to})

AcceptedSince(peerId, from) ==
    SumLog(acceptLog, {k \in DOMAIN acceptLog : k[1] = peerId /\ k[2] >= from})

\* One frame of the peer at time t run through the rate check, and logged
\* when it passes
Counted(before, peerId, t) ==
    LET verdict == isPeerAllowed(before.rates, peerId, t)
        key == <<peerId, t>>
    IN  [rates |-> verdict.rates,
         log |-> IF verdict.allowed
                 THEN Put(before.log, key,
                          IF key \in DOMAIN before.log
                          THEN before.log[key] + 1 ELSE 1)
                 ELSE before.log]

\* k frames of the peer at time t, one after the other (the first half is
\* computed to a value before the second half starts from it)
RECURSIVE Burst(_, _, _, _)
Burst(before, peerId, t, k) ==
    IF k = 0 THEN before
    ELSE IF k = 1 THEN Counted(before, peerId, t)
    ELSE CHOOSE after \in {Burst(half, peerId, t, k - (k \div 2)) :
                              half \in {Burst(before, peerId, t, k \div 2)}} : TRUE

\* The rate map and the log after the peer sent bursts[i][2] parseable frames
\* at time bursts[i][1], for i = 1 .. n in order
RECURSIVE AfterBursts(_, _, _)
AfterBursts(peerId, bursts, n) ==
    IF n = 0 THEN [rates |-> EmptyMap, log |-> EmptyMap]
    ELSE Burst(AfterBursts(peerId, bursts, n - 1), peerId,
               bursts[n][1], bursts[n][2])

\* frames sent when only the rate check matters: a chat, an unknown type, and
\* one that does not parse
RateFrames ==
    { Frame(Str("chat"), U, U, U, U, Str("hi")),
      Frame(Str("chat"), U, U, U, U, LongStr("text", MAX_MESSAGE_SIZE)),
      Frame(Str("ping"), U, U, U, U, U),
      Frame(Num(1), U, U, U, U, U),
      Frame(Str("offer"), U, U, Str("v=0"), U, U),
      Frame(Str("offer"), Str("peer-2"), U, U, U, U),
      ClientFrame(4, "invalid", U, U, U, U, U, U),
      ClientFrame(4, "null", U, U, U, U, U, U) }

\* frames handled, and clock advances, in one run of the rate scenarios
MaxRateMsgs == 3

MaxRateTicks == 2

\* peers that send in one run of the rate scenarios
MaxRateSenders == 2

StartRate(bursts, t) ==
    LET a == After(RelayJoins, Len(RelayJoins))
        b == AfterBursts(PeerId(1), bursts, Len(bursts))
    IN  Start(RelayJoins, [a.room EXCEPT !.peerRates = b.rates], t, b.log,
              Budget(0, MaxRateMsgs, MaxRateTicks, 0))

\* peer-1 has sent 29 frames at time 0; or 1 at time 0 and 28 as its window
\* ends; or has filled that window and sent 28 more right after it
InitRate ==
    \/ StartRate(<<<<0, PEER_MSG_LIMIT - 1>>>>, 0)
    \/ StartRate(<<<<0, 1>>, <<PEER_MSG_WINDOW, PEER_MSG_LIMIT - 2>>>>, PEER_MSG_WINDOW)
    \/ StartRate(<<<<0, 1>>, <<PEER_MSG_WINDOW, PEER_MSG_LIMIT - 1>>,
                   <<PEER_MSG_WINDOW + 1, PEER_MSG_LIMIT - 2>>>>, PEER_MSG_WINDOW + 1)

NextRate ==
    \/ \E ws \in {w \in Sockets(room) : w <= MaxRateSenders} :
          \E message \in RateFrames : Message(ws, message)
    \/ \E d \in TickSteps : Tick(d)

SpecRate == InitRate /\ [][NextRate]_vars

\* frames handled in one run of the rate-window scenario
MaxWindowMsgs == 2

\* two sessions, the first of which has sent 29 frames in its window; both
\* send, close and fail, and the Room may be constructed again in between
InitWindows ==
    LET a == After(RelayJoins, 2)
        b == AfterBursts(PeerId(1), <<<<0, PEER_MSG_LIMIT - 1>>>>, 1)
    IN  /\ room = [a.room EXCEPT !.peerRates = b.rates]
        /\ now = 0
        /\ broken = {}
        /\ sent = << >>
        /\ last = Ran("init", NoSocket, [a.room EXCEPT !.peerRates = b.rates], NoFrame,
                      Outcome(a.room, << >>, 0, FALSE, NoNotice))
        /\ clients = a.clients
        /\ acceptLog = b.log
        /\ nextWs = 3
        /\ base = 0
        /\ budget = Budget(0, MaxWindowMsgs, MaxTicks, MaxBreaks)
        /\ deployment = NewDeployment
        /\ limiter = NewLimiter
        /\ probe = NoProbe

WindowFrames ==
    { Frame(Str("chat"), U, U, U, U, Str("hi")),
      ClientFrame(4, "invalid", U, U, U, U, U, U) }

NextWindows ==
    \/ \E ws \in Sockets(room) : \E message \in WindowFrames : Message(ws, message)
    \/ \E ws \in Sockets(room) : Close(ws)
    \/ \E ws \in Sockets(room) : Error(ws)
    \/ \E ws \in Sockets(room) : Break(ws)
    \/ \E d \in TickSteps : Tick(d)
    \/ Wake

SpecWindows == InitWindows /\ [][NextWindows]_vars

\* ------------------------------------------------------------ room codes
ROOM_CODE_CHARSET == "ABCDEFGHJKMNPQRSTUVWXYZ23456789"

MAX_CODE_INPUT == 20

ROOM_CODE_LENGTH == 8

LowerCase == "abcdefghijklmnopqrstuvwxyz"

UpperCase == "ABCDEFGHIJKLMNOPQRSTUVWXYZ"

Digits == "0123456789"

\* String.prototype.includes for one character
Includes(s, ch) == \E i \in 1..Len(s) : SubSeq(s, i, i) = ch

IndexOf(s, ch) ==
    CHOOSE i \in 1..Len(s) :
        /\ SubSeq(s, i, i) = ch
        /\ \A j \in 1..(i - 1) : SubSeq(s, j, j) # ch

\* the character of `to` at the place ch has in `from`, ch itself if it has none
Translate(ch, from, to) ==
    IF Includes(from, ch)
    THEN SubSeq(to, IndexOf(from, ch), IndexOf(from, ch))
    ELSE ch

\* String.prototype.toUpperCase and toLowerCase on ASCII
RECURSIVE MapCase(_, _, _)
MapCase(s, from, to) ==
    IF s = "" THEN ""
    ELSE Translate(SubSeq(s, 1, 1), from, to) \o MapCase(SubSeq(s, 2, Len(s)), from, to)

toUpperCase(s) == MapCase(s, LowerCase, UpperCase)

toLowerCase(s) == MapCase(s, UpperCase, LowerCase)

\* s.replace(/[..]/g, '') for a set of characters
RECURSIVE Strip(_, _)
Strip(s, chars) ==
    IF s = "" THEN ""
    ELSE LET ch == SubSeq(s, 1, 1)
             rest == Strip(SubSeq(s, 2, Len(s)), chars)
         IN  IF ch \in chars THEN rest ELSE ch \o rest

\* the characters of \s in the inputs of the model
Whitespace == {" ", "\t", "\n", "\r", "\f"}

\* generateRoomCode with the byte reduced modulo 32; an index past the end of
\* the charset reads undefined, which += appends as the word
generateRoomCode_mod32(bytes) ==
    LET RECURSIVE Code(_)
        Code(n) ==
            IF n = 0 THEN ""
            ELSE Code(n - 1)
                 \o (IF bytes[n] % 32 < Len(ROOM_CODE_CHARSET)
                     THEN SubSeq(ROOM_CODE_CHARSET, (bytes[n] % 32) + 1,
                                 (bytes[n] % 32) + 1)
                     ELSE "undefined")
        code == Code(Len(bytes))
    IN  Slice(code, 4) \o "-" \o SubSeq(code, 5, Len(code))

\* generateRoomCode on the bytes crypto.getRandomValues has drawn
generateRoomCode(bytes) ==
    LET RECURSIVE Code(_)
        Code(n) ==
            IF n = 0 THEN ""
            ELSE Code(n - 1)
                 \o SubSeq(ROOM_CODE_CHARSET,
                           (bytes[n] % Len(ROOM_CODE_CHARSET)) + 1,
                           (bytes[n] % Len(ROOM_CODE_CHARSET)) + 1)
        code == Code(Len(bytes))
    IN  Slice(code, 4) \o "-" \o SubSeq(code, 5, Len(code))

\* parseRoomCode without toUpperCase
parseRoomCode_caseSensitive(input) ==
    LET cleaned == Strip(input, {"-"} \cup Whitespace)
    IN  IF input = "" THEN ""
        ELSE IF Len(input) > MAX_CODE_INPUT THEN ""
        ELSE IF Len(cleaned) # ROOM_CODE_LENGTH THEN ""
        ELSE IF \E i \in 1..Len(cleaned) :
                    ~Includes(ROOM_CODE_CHARSET, SubSeq(cleaned, i, i))
        THEN ""
        ELSE cleaned

\* parseRoomCode without the test of the characters against the charset
parseRoomCode_anyChar(input) ==
    LET cleaned == toUpperCase(Strip(input, {"-"} \cup Whitespace))
    IN  IF input = "" THEN ""
        ELSE IF Len(input) > MAX_CODE_INPUT THEN ""
        ELSE IF Len(cleaned) # ROOM_CODE_LENGTH THEN ""
        ELSE cleaned

\* parseRoomCode: the canonical code, or "" for null
parseRoomCode(input) ==
    LET cleaned == toUpperCase(Strip(input, {"-"} \cup Whitespace))
    IN  IF input = "" THEN ""
        ELSE IF Len(input) > MAX_CODE_INPUT THEN ""
        ELSE IF Len(cleaned) # ROOM_CODE_LENGTH THEN ""
        ELSE IF \E i \in 1..Len(cleaned) :
                    ~Includes(ROOM_CODE_CHARSET, SubSeq(cleaned, i, i))
        THEN ""
        ELSE cleaned

\* formatRoomCode
formatRoomCode(canonical) ==
    SubSeq(canonical, 1, Min(Len(canonical), 4)) \o "-"
        \o SubSeq(canonical, 5, Len(canonical))

\* ------------------------------------------------------------ connection limiter
\* pruneExpired that also drops an entry exactly CONNECTION_TTL old
pruneExpired_atTtl(connections, ip, t) ==
    IF ip \notin DOMAIN connections THEN connections
    ELSE LET rooms == connections[ip]
             kept == {code \in DOMAIN rooms : ~(t - rooms[code] >= CONNECTION_TTL)}
         IN  IF kept = {} THEN Drop(connections, ip)
             ELSE Put(connections, ip, [code \in kept |-> rooms[code]])

\* ConnectionLimiter.pruneExpired on connections: ip -> (roomCode -> joinedAt)
pruneExpired(connections, ip, t) ==
    IF ip \notin DOMAIN connections THEN connections
    ELSE LET rooms == connections[ip]
             kept == {code \in DOMAIN rooms : ~(t - rooms[code] > CONNECTION_TTL)}
         IN  IF kept = {} THEN Drop(connections, ip)
             ELSE Put(connections, ip, [code \in kept |-> rooms[code]])

\* a response of ConnectionLimiter.fetch and the map it leaves; allowed and
\* count are those of /check
QuotaReply(status, allowed, count, connections) ==
    [status |-> status, allowed |-> allowed, count |-> count, limit |-> 0,
     connections |-> connections]

RoomsOf(connections, ip) ==
    IF ip \in DOMAIN connections THEN connections[ip] ELSE EmptyMap

\* case '/check'
LimiterCheck(connections, ip, t) ==
    LET pruned == pruneExpired(connections, ip, t)
        count == Cardinality(DOMAIN RoomsOf(pruned, ip))
    IN  [QuotaReply(200, count < MAX_ROOMS_PER_IP, count, pruned)
            EXCEPT !.limit = MAX_ROOMS_PER_IP]

\* case '/connect'
\* /connect that prunes the address before it records the pair
LimiterConnect_pruning(connections, ip, roomCode, t) ==
    LET pruned == pruneExpired(connections, ip, t)
    IN  IF roomCode = "" THEN QuotaReply(400, FALSE, 0, connections)
        ELSE QuotaReply(200, FALSE, 0,
                        Put(pruned, ip, Put(RoomsOf(pruned, ip), roomCode, t)))

\* /connect that keeps the time of the first call for a recorded pair
LimiterConnect_keepFirst(connections, ip, roomCode, t) ==
    IF roomCode = "" THEN QuotaReply(400, FALSE, 0, connections)
    ELSE IF roomCode \in DOMAIN RoomsOf(connections, ip)
    THEN QuotaReply(200, FALSE, 0, connections)
    ELSE QuotaReply(200, FALSE, 0,
                    Put(connections, ip, Put(RoomsOf(connections, ip), roomCode, t)))

LimiterConnect(connections, ip, roomCode, t) ==
    IF roomCode = "" THEN QuotaReply(400, FALSE, 0, connections)
    ELSE QuotaReply(200, FALSE, 0,
                    Put(connections, ip, Put(RoomsOf(connections, ip), roomCode, t)))

\* case '/disconnect'
\* /disconnect that keeps the key of an address whose last entry it removed
LimiterDisconnect_keepKey(connections, ip, roomCode, t) ==
    IF roomCode = "" THEN QuotaReply(400, FALSE, 0, connections)
    ELSE IF ip \notin DOMAIN connections THEN QuotaReply(200, FALSE, 0, connections)
    ELSE QuotaReply(200, FALSE, 0,
                    Put(connections, ip, Drop(RoomsOf(connections, ip), roomCode)))

LimiterDisconnect(connections, ip, roomCode, t) ==
    LET left == Drop(RoomsOf(connections, ip), roomCode)
    IN  IF roomCode = "" THEN QuotaReply(400, FALSE, 0, connections)
        ELSE IF ip \notin DOMAIN connections THEN QuotaReply(200, FALSE, 0, connections)
        ELSE IF DOMAIN left = {} THEN QuotaReply(200, FALSE, 0, Drop(connections, ip))
        ELSE QuotaReply(200, FALSE, 0, Put(connections, ip, left))

\* ConnectionLimiter.fetch for a body {ip, roomCode} ("" for a missing field)
LimiterFetch(connections, path, ip, roomCode, t) ==
    IF ip = "" THEN QuotaReply(400, FALSE, 0, connections)
    ELSE CASE path = "/check" -> LimiterCheck(connections, ip, t)
           [] path = "/connect" -> LimiterConnect(connections, ip, roomCode, t)
           [] path = "/disconnect" -> LimiterDisconnect(connections, ip, roomCode, t)
           [] OTHER -> QuotaReply(404, FALSE, 0, connections)

\* ------------------------------------------------------------ router
WINDOW_MS == 60000

CREATE_LIMIT == 5

JOIN_LIMIT == 10

PRUNE_SIZE == 100

MAX_DISPLAY_NAME == 32

\* isAllowed where a rejected request restarts the window of its address
isAllowed_restartOnReject(entries, limit, ip, t) ==
    IF ip \notin DOMAIN entries \/ t - entries[ip].windowStart > WINDOW_MS
    THEN [allowed |-> TRUE,
          clients |-> (ip :> [count |-> 1, windowStart |-> t]) @@ entries]
    ELSE IF entries[ip].count >= limit
    THEN [allowed |-> FALSE,
          clients |-> (ip :> [count |-> entries[ip].count, windowStart |-> t])
                      @@ entries]
    ELSE [allowed |-> TRUE,
          clients |-> (ip :> [count |-> entries[ip].count + 1,
                              windowStart |-> entries[ip].windowStart]) @@ entries]

\* RateLimiter.isAllowed on its map ip -> {count, windowStart}
isAllowed(entries, limit, ip, t) ==
    LET fresh == {k \in DOMAIN entries : ~(t - entries[k].windowStart > WINDOW_MS)}
        pruned == IF Cardinality(DOMAIN entries) > PRUNE_SIZE
                  THEN [k \in fresh |-> entries[k]]
                  ELSE entries
    IN  IF ip \notin DOMAIN entries \/ t - entries[ip].windowStart > WINDOW_MS
        THEN [allowed |-> TRUE,
              clients |-> Put(pruned, ip, [count |-> 1, windowStart |-> t])]
        ELSE IF entries[ip].count >= limit
        THEN [allowed |-> FALSE, clients |-> pruned]
        ELSE [allowed |-> TRUE,
              clients |-> Put(pruned, ip, [count |-> entries[ip].count + 1,
                                            windowStart |-> entries[ip].windowStart])]

\* getClientIP
getClientIP(request) ==
    IF request.cfConnectingIP # "" THEN request.cfConnectingIP
    ELSE IF request.xForwardedFor # "" THEN request.xForwardedFor
    ELSE "unknown"

\* the control characters [\x00-\x1f\x7f] in the inputs of the model
ControlChars == {"\t", "\n", "\r", "\f"}

\* String.prototype.trim
RECURSIVE trim(_)
trim(s) ==
    IF s = "" THEN ""
    ELSE IF SubSeq(s, 1, 1) \in Whitespace THEN trim(SubSeq(s, 2, Len(s)))
    ELSE IF SubSeq(s, Len(s), Len(s)) \in Whitespace THEN trim(SubSeq(s, 1, Len(s) - 1))
    ELSE s

\* sanitizeDisplayName ("" for a missing parameter)
sanitizeDisplayName(raw) ==
    LET cleaned == trim(Strip(raw, ControlChars))
    IN  IF raw = "" THEN "Anonymous"
        ELSE IF Len(cleaned) = 0 THEN "Anonymous"
        ELSE Slice(cleaned, MAX_DISPLAY_NAME)

\* the characters encodeURIComponent leaves alone
Unreserved == LowerCase \o UpperCase \o Digits \o "-_.!~*'()"

\* the escapes of the other characters in the inputs of the model
Escapes ==
    (" " :> "%20") @@ ("&" :> "%26") @@ ("=" :> "%3D") @@ ("%" :> "%25")
        @@ ("+" :> "%2B") @@ ("#" :> "%23") @@ ("?" :> "%3F") @@ ("/" :> "%2F")

RECURSIVE encodeURIComponent(_)
encodeURIComponent(s) ==
    IF s = "" THEN ""
    ELSE LET ch == SubSeq(s, 1, 1)
         IN  (IF Includes(Unreserved, ch) THEN ch ELSE Escapes[ch])
                \o encodeURIComponent(SubSeq(s, 2, Len(s)))

\* the value of a query parameter as URLSearchParams decodes it: it ends at
\* '&' or '#', '+' is a space, and %XX is the character it escapes
RECURSIVE DecodeValue(_)
DecodeValue(s) ==
    IF s = "" THEN ""
    ELSE LET ch == SubSeq(s, 1, 1)
             hits == {c \in DOMAIN Escapes : Escapes[c] = SubSeq(s, 1, Min(Len(s), 3))}
         IN  IF ch \in {"&", "#"} THEN ""
             ELSE IF ch = "+" THEN " " \o DecodeValue(SubSeq(s, 2, Len(s)))
             ELSE IF hits # {}
             THEN (CHOOSE c \in hits : TRUE) \o DecodeValue(SubSeq(s, 4, Len(s)))
             ELSE ch \o DecodeValue(SubSeq(s, 2, Len(s)))

\* the path is /api/join/<code> with code matching [A-Za-z0-9-]+
JoinMatch(code) ==
    /\ Len(code) > 0
    /\ \A i \in 1..Len(code) :
          Includes(LowerCase \o UpperCase \o Digits \o "-", SubSeq(code, i, i))

Respond(D, status) == [D EXCEPT !.response = status, !.forwarded = ""]

\* handleJoin that names the Room instance by the code as typed
handleJoin_rawCode(D, request, codeParam, t) ==
    LET canonical == parseRoomCode(codeParam)
        name == sanitizeDisplayName(request.name)
        R == IF codeParam \in DOMAIN D.rooms THEN D.rooms[codeParam] ELSE NewRoom
        out == fetch(R, D.nextWs, DecodeValue(encodeURIComponent(name)), "", "", {})
    IN  IF Len(codeParam) > MAX_CODE_INPUT THEN Respond(D, 400)
        ELSE IF canonical = "" THEN Respond(D, 400)
        ELSE IF toLowerCase(request.upgrade) # "websocket" THEN Respond(D, 426)
        ELSE IF out.status # 101
        THEN [D EXCEPT !.rooms = Put(@, codeParam, out.room),
                       !.response = out.status,
                       !.forwarded = codeParam]
        ELSE [D EXCEPT !.rooms = Put(@, codeParam, out.room),
                       !.response = out.status,
                       !.forwarded = codeParam,
                       !.nextWs = @ + 1,
                       !.origin = Put(@, D.nextWs,
                                      [ip |-> getClientIP(request), room |-> codeParam])]

\* handleJoin: the Room is sent the sanitized name and nothing else
handleJoin(D, request, codeParam, t) ==
    LET canonical == parseRoomCode(codeParam)
        name == sanitizeDisplayName(request.name)
        R == IF canonical \in DOMAIN D.rooms THEN D.rooms[canonical] ELSE NewRoom
        out == fetch(R, D.nextWs, DecodeValue(encodeURIComponent(name)), "", "", {})
    IN  IF Len(codeParam) > MAX_CODE_INPUT THEN Respond(D, 400)
        ELSE IF canonical = "" THEN Respond(D, 400)
        ELSE IF toLowerCase(request.upgrade) # "websocket" THEN Respond(D, 426)
        ELSE IF out.status # 101
        THEN [D EXCEPT !.rooms = Put(@, canonical, out.room),
                       !.response = out.status,
                       !.forwarded = canonical]
        ELSE [D EXCEPT !.rooms = Put(@, canonical, out.room),
                       !.response = out.status,
                       !.forwarded = canonical,
                       !.event = [op |-> "join", room |-> canonical, ws |-> D.nextWs,
                                  type |-> "", to |-> ""],
                       !.frames = out.sent,
                       !.nextWs = @ + 1,
                       !.origin = Put(@, D.nextWs,
                                      [ip |-> getClientIP(request), room |-> canonical])]

\* handleCreate: the generated code and its canonical form are returned; no
\* Room is contacted
handleCreate(D, request) ==
    LET roomCode == generateRoomCode(request.bytes)
    IN  IF request.contentLength > 1024 THEN Respond(D, 413)
        ELSE [Respond(D, 200) EXCEPT
                 !.created = [room_code |-> roomCode,
                              canonical |-> parseRoomCode(roomCode)]]

\* the RateLimiter gate of a route: the entry of the address before the
\* request, the verdict, and the request logged when it is let through
Gate(D, route, entries, limit, ip, t) ==
    LET verdict == isAllowed(entries, limit, ip, t)
        key == <<route, ip, t>>
    IN  [allowed |-> verdict.allowed,
         clients |-> verdict.clients,
         gate |-> [route |-> route, ip |-> ip, at |-> t,
                   count |-> IF ip \in DOMAIN entries THEN entries[ip].count ELSE 0,
                   windowStart |-> IF ip \in DOMAIN entries
                                   THEN entries[ip].windowStart ELSE 0],
         admitted |-> IF verdict.allowed
                      THEN Put(D.admitted, key,
                               IF key \in DOMAIN D.admitted
                               THEN D.admitted[key] + 1 ELSE 1)
                      ELSE D.admitted]

\* the Worker's fetch for POST /api/create and GET /api/join/<request.code>
RouterFetch(D, request, t) ==
    LET asked == [D EXCEPT !.asked = request.code, !.before = D.rooms,
                           !.event = NewDeployment.event, !.frames = << >>,
                           !.created = NewDeployment.created,
                           !.gate = NewDeployment.gate]
        creates == Gate(D, "create", D.createLimiter, CREATE_LIMIT,
                        getClientIP(request), t)
        joins == Gate(D, "join", D.joinLimiter, JOIN_LIMIT, getClientIP(request), t)
    IN  IF request.create
        THEN IF ~creates.allowed
             THEN Respond([asked EXCEPT !.createLimiter = creates.clients,
                                        !.gate = creates.gate], 429)
             ELSE handleCreate([asked EXCEPT !.createLimiter = creates.clients,
                                             !.gate = creates.gate,
                                             !.admitted = creates.admitted],
                               request)
        ELSE IF ~JoinMatch(request.code) THEN Respond(asked, 404)
        ELSE IF ~joins.allowed
        THEN Respond([asked EXCEPT !.joinLimiter = joins.clients,
                                   !.gate = joins.gate], 429)
        ELSE handleJoin([asked EXCEPT !.joinLimiter = joins.clients,
                                      !.gate = joins.gate,
                                      !.admitted = joins.admitted],
                        request, request.code, t)

\* a connection closes: Room.webSocketClose in its Room, and the disconnect
\* request, if one is issued, served by the limiter shard
RoomClosed(D, ws, reply, t) ==
    LET code == D.origin[ws].room
        out == webSocketClose(D.rooms[code], ws, {}, reply)
        shard == out.notice.shard
        conns == IF shard \in DOMAIN D.limiters THEN D.limiters[shard] ELSE EmptyMap
    IN  [D EXCEPT !.asked = "", !.before = EmptyMap, !.forwarded = "",
                  !.response = 0, !.gate = NewDeployment.gate,
                  !.event = [op |-> "close", room |-> code, ws |-> ws,
                             type |-> "", to |-> ""],
                  !.frames = out.sent,
                  !.rooms = Put(@, code, out.room),
                  !.limiters =
                      IF out.notice = NoNotice \/ reply # "delivered" THEN @
                      ELSE Put(@, shard,
                               LimiterFetch(conns, "/disconnect", out.notice.ip,
                                            out.notice.roomCode, t).connections)]

\* ------------------------------------------------------------ the deployment
\* requests handled in one run of the deployment
MaxRequests == 2

JoinRequest(ip, code, upgrade, name) ==
    [cfConnectingIP |-> ip, xForwardedFor |-> "", code |-> code,
     upgrade |-> upgrade, name |-> name,
     create |-> FALSE, contentLength |-> 0, bytes |-> << >>]

\* POST /api/create with a Content-Length, and the random bytes drawn for it
CreateRequest(ip, contentLength, bytes) ==
    [cfConnectingIP |-> ip, xForwardedFor |-> "", code |-> "",
     upgrade |-> "", name |-> "",
     create |-> TRUE, contentLength |-> contentLength, bytes |-> bytes]

SourceIPs == {"1.2.3.4", "5.6.7.8"}

\* ten room codes, and an eleventh
HeldCodes ==
    << "ABCD-EFG2", "ABCD-EFG3", "ABCD-EFG4", "ABCD-EFG5", "ABCD-EFG6",
       "ABCD-EFG7", "ABCD-EFG8", "ABCD-EFG9", "ABCD-EFGH", "ABCD-EFGJ" >>

\* a new code, the first held code typed in lower case, a code with a
\* character outside the charset, a path that is not a join path, and a code
\* of 21 characters
CodeParams ==
    {"ABCD-EFGK", "abcdefg2", "ABCD-EFG0", "ABCD_EFGK", "ABCD-EFGK-ABCD-EFGK-A"}

RouterRequests ==
    {JoinRequest(ip, code, upgrade, name) :
        ip \in SourceIPs, code \in CodeParams,
        upgrade \in {"websocket", ""}, name \in {"Alice", " Bo b&co\t"}}

\* the deployment after requests 1 .. n of reqs were served at time t
RECURSIVE Served(_, _, _)
Served(reqs, n, t) ==
    IF n = 0 THEN NewDeployment
    ELSE CHOOSE after \in {RouterFetch(D, reqs[n], t) :
                              D \in {Served(reqs, n - 1, t)}} : TRUE

StartDeployment(D, t) ==
    /\ room = NewRoom
    /\ now = t
    /\ broken = {}
    /\ sent = << >>
    /\ last = Ran("init", NoSocket, NewRoom, NoFrame,
                  Outcome(NewRoom, << >>, 0, FALSE, NoNotice))
    /\ clients = EmptyMap
    /\ acceptLog = EmptyMap
    /\ nextWs = D.nextWs
    /\ base = D.nextWs - 1
    /\ budget = Budget(MaxRequests, 0, 1, 0)
    /\ deployment = D
    /\ limiter = NewLimiter
    /\ probe = NoProbe

\* a fresh deployment, and one where one address has just joined ten rooms
InitDeployment ==
    \/ StartDeployment(NewDeployment, 0)
    \/ LET reqs == [i \in 1..MAX_ROOMS_PER_IP |->
                       JoinRequest("1.2.3.4", HeldCodes[i], "websocket", "Alice")]
       IN  StartDeployment(Served(reqs, Len(reqs), 0), 0)

\* connections with a live session in their Room
Live(D) ==
    {ws \in DOMAIN D.origin : ws \in Sockets(D.rooms[D.origin[ws].room])}

\* a join request reaches the Worker
Request(request) ==
    /\ budget.joins > 0
    /\ deployment' = RouterFetch(deployment, request, now)
    /\ budget' = [budget EXCEPT !.joins = @ - 1]
    /\ UNCHANGED <<room, now, broken, sent, last, clients, acceptLog, nextWs, base,
                   limiter, probe>>

\* a connection admitted by the Worker closes
Hangup(ws) ==
    /\ ws \in Live(deployment)
    /\ Active(ws)
    /\ \E reply \in StubReplies(deployment.rooms[deployment.origin[ws].room], ws) :
          deployment' = RoomClosed(deployment, ws, reply, now)
    /\ UNCHANGED <<room, now, broken, sent, last, clients, acceptLog, nextWs, base,
                   budget, limiter, probe>>

DeploymentTicks == {1, WINDOW_MS + 1}

NextDeployment ==
    \/ \E request \in RouterRequests : Request(request)
    \/ \E ws \in Live(deployment) : Hangup(ws)
    \/ \E d \in DeploymentTicks : Tick(d)

SpecDeployment == InitDeployment /\ [][NextDeployment]_vars

\* ------------------------------------------------------------ edge gate
\* room creations, and joins with a new code, a code outside the charset and
\* a path that is not a join path
GateRequests ==
    {CreateRequest(ip, contentLength, bytes) :
        ip \in SourceIPs, contentLength \in {0, 2048},
        bytes \in {<<0, 1, 2, 3, 4, 5, 6, 7>>, <<255, 31, 30, 8, 9, 10, 11, 12>>}}
    \cup {JoinRequest(ip, code, "websocket", "Alice") :
            ip \in SourceIPs, code \in {"ABCD-EFGK", "ABCD-EFG0", "ABCD_EFGK"}}

\* one address has used all but one of its joins and creations of the window
\* that has just opened, or all of them in a window that is at its last
\* millisecond
InitGate ==
    \E spare \in {0, 1} :
        LET reqs == [i \in 1..(JOIN_LIMIT + CREATE_LIMIT - 2 * spare) |->
                        IF i <= JOIN_LIMIT - spare
                        THEN JoinRequest("1.2.3.4", HeldCodes[i], "websocket", "Alice")
                        ELSE CreateRequest("1.2.3.4", 0,
                                           <<i, 1, 2, 3, 4, 5, 6, 7>>)]
        IN  \E D \in {Served(reqs, Len(reqs), 0)} :
                StartDeployment(D, IF spare = 1 THEN 0 ELSE WINDOW_MS)

NextGate ==
    \/ \E request \in GateRequests : Request(request)
    \/ \E ws \in Live(deployment) : Hangup(ws)
    \/ \E d \in DeploymentTicks : Tick(d)

SpecGate == InitGate /\ [][NextGate]_vars

\* ------------------------------------------------------------ several rooms
\* frames posted in one run of several Rooms
MaxPosts == 1

\* one Room with a single session and another with three, so that peer-2 and
\* peer-3 are live in the second only and peer-1 in both
InitRooms ==
    LET reqs == [i \in 1..4 |->
                    JoinRequest("1.2.3.4", HeldCodes[IF i = 1 THEN 1 ELSE 2],
                                "websocket", "Alice")]
    IN  \E D \in {Served(reqs, Len(reqs), 0)} :
            /\ room = NewRoom
            /\ now = 0
            /\ broken = {}
            /\ sent = << >>
            /\ last = Ran("init", NoSocket, NewRoom, NoFrame,
                          Outcome(NewRoom, << >>, 0, FALSE, NoNotice))
            /\ clients = EmptyMap
            /\ acceptLog = EmptyMap
            /\ nextWs = D.nextWs
            /\ base = D.nextWs - 1
            /\ budget = Budget(MaxRequests, MaxPosts, 0, 0)
            /\ deployment = D
            /\ limiter = NewLimiter
            /\ probe = NoProbe

\* a frame from a connection reaches webSocketMessage of the Room that
\* accepted the connection
Post(ws, message) ==
    /\ budget.msgs > 0
    /\ ws \in Live(deployment)
    /\ LET code == deployment.origin[ws].room
           out == webSocketMessage(deployment.rooms[code], ws, message, now, {})
       IN  deployment' =
              [deployment EXCEPT
                  !.asked = "", !.before = deployment.rooms, !.forwarded = "",
                  !.response = 0, !.gate = NewDeployment.gate,
                  !.rooms = Put(@, code, out.room),
                  !.event = [op |-> "message", room |-> code, ws |-> ws,
                             type |-> message.type.v, to |-> message.to.v],
                  !.frames = out.sent]
    /\ budget' = [budget EXCEPT !.msgs = @ - 1]
    /\ UNCHANGED <<room, now, broken, sent, last, clients, acceptLog, nextWs, base,
                   limiter, probe>>

\* joins of the two Rooms, offers and a candidate addressed to
\* the peer ids of the larger Room, a chat and an unknown type, and closes
NextRooms ==
    \/ \E request \in {JoinRequest("5.6.7.8", code, "websocket", "Bob") :
                          code \in {"ABCD-EFG2", "abcdefg3"}} :
          Request(request)
    \/ \E ws \in Live(deployment) :
          \E message \in
             {Frame(Str("offer"), Str(PeerId(n)), U, Str("v=0"), U, U) : n \in 1..3}
             \cup {Frame(Str("ice-candidate"), Str("peer-2"), U, U,
                         Obj("candidate", 120), U),
                   Frame(Str("chat"), U, U, U, U, Str("hi")),
                   Frame(Str("ping"), U, U, U, U, U)} :
             Post(ws, message)
    \/ \E ws \in Live(deployment) : Hangup(ws)

SpecRooms == InitRooms /\ [][NextRooms]_vars

\* ------------------------------------------------------------ quota shard
\* requests served, and clock advances, in one run of a ConnectionLimiter
MaxQuotaOps == 3

MaxQuotaTicks == 2

QuotaIPs == {"1.2.3.4", "5.6.7.8"}

\* a room the first address holds in the initial scenario, and two it does not
QuotaRooms == {"ABCDEFG2", "ABCDEFGK", "ABCDEFGM"}

QuotaRequest(path, ip, roomCode) == [path |-> path, ip |-> ip, roomCode |-> roomCode]

\* the bodies and paths a ConnectionLimiter is sent, with missing fields and
\* an unknown path
QuotaRequests ==
    {QuotaRequest("/check", ip, "") : ip \in QuotaIPs \cup {""}}
    \cup {QuotaRequest(path, ip, roomCode) :
            path \in {"/connect", "/disconnect"}, ip \in QuotaIPs,
            roomCode \in QuotaRooms \cup {""}}
    \cup {QuotaRequest("/status", "1.2.3.4", "")}

\* joins of the address that were allowed by /check and have not sent /connect
Permits(permits, ip) == IF ip \in DOMAIN permits THEN permits[ip] ELSE 0

\* The ConnectionLimiter after it served the request at time t; a /connect
\* that no allowed /check preceded makes the run undisciplined
Quota(L, request, t) ==
    LET reply == LimiterFetch(L.connections, request.path, request.ip,
                              request.roomCode, t)
        held == Permits(L.permits, request.ip)
        granted == request.path = "/check" /\ reply.status = 200 /\ reply.allowed
        used == request.path = "/connect" /\ reply.status = 200
    IN  [connections |-> reply.connections,
         last |-> [path |-> request.path, ip |-> request.ip,
                   roomCode |-> request.roomCode, at |-> t,
                   pre |-> L.connections, status |-> reply.status,
                   allowed |-> reply.allowed, count |-> reply.count,
                   limit |-> reply.limit],
         permits |-> IF granted THEN Put(L.permits, request.ip, held + 1)
                     ELSE IF used /\ held > 1 THEN Put(L.permits, request.ip, held - 1)
                     ELSE IF used THEN Drop(L.permits, request.ip)
                     ELSE L.permits,
         disciplined |-> L.disciplined /\ (used => held > 0)]

\* the ConnectionLimiter after the address joined rooms codes[1 .. n] at time
\* t, each join a /check followed by its /connect
RECURSIVE AfterJoins(_, _, _, _)
AfterJoins(ip, codes, n, t) ==
    IF n = 0 THEN NewLimiter
    ELSE CHOOSE after \in
            {Quota(Quota(before, QuotaRequest("/check", ip, ""), t),
                   QuotaRequest("/connect", ip, codes[n]), t) :
                before \in {AfterJoins(ip, codes, n - 1, t)}} : TRUE

StartQuota(L, t) ==
    /\ room = NewRoom
    /\ now = t
    /\ broken = {}
    /\ sent = << >>
    /\ last = Ran("init", NoSocket, NewRoom, NoFrame,
                  Outcome(NewRoom, << >>, 0, FALSE, NoNotice))
    /\ clients = EmptyMap
    /\ acceptLog = EmptyMap
    /\ nextWs = 1
    /\ base = 0
    /\ budget = Budget(MaxQuotaOps, 0, MaxQuotaTicks, 0)
    /\ deployment = NewDeployment
    /\ limiter = L
    /\ probe = NoProbe

\* a fresh ConnectionLimiter, and one where an address holds nine rooms and a
\* further join of it has passed its check
InitQuota ==
    \/ StartQuota(NewLimiter, 0)
    \/ LET codes == [i \in 1..(MAX_ROOMS_PER_IP - 1) |-> parseRoomCode(HeldCodes[i])]
       IN  StartQuota(Quota(AfterJoins("1.2.3.4", codes, Len(codes), 0),
                            QuotaRequest("/check", "1.2.3.4", ""), 0),
                      0)

\* a request reaches ConnectionLimiter.fetch
Ask(request) ==
    /\ budget.joins > 0
    /\ limiter' = Quota(limiter, request, now)
    /\ budget' = [budget EXCEPT !.joins = @ - 1]
    /\ UNCHANGED <<room, now, broken, sent, last, clients, acceptLog, nextWs, base,
                   deployment, probe>>

QuotaTicks == {1, CONNECTION_TTL}

NextQuota ==
    \/ \E request \in QuotaRequests : Ask(request)
    \/ \E d \in QuotaTicks : Tick(d)

SpecQuota == InitQuota /\ [][NextQuota]_vars

\* ------------------------------------------------------------ close and quota
\* limiter requests served in one run of a Room with its shard
MaxNotifyOps == 2

\* a Room entered twice from one address with the room code passed along,
\* and once without either; the shard of the address holds this room and
\* another for it
InitNotify ==
    LET known == [name |-> "Bob", ip |-> "1.2.3.4", roomParam |-> "GATE2345"]
        reqs == <<known, AnonymousJoin, known>>
    IN  /\ room = After(reqs, Len(reqs)).room
        /\ now = 0
        /\ broken = {}
        /\ sent = << >>
        /\ last = Ran("init", NoSocket, room, NoFrame,
                      Outcome(room, << >>, 0, FALSE, NoNotice))
        /\ clients = After(reqs, Len(reqs)).clients
        /\ acceptLog = EmptyMap
        /\ nextWs = Len(reqs) + 1
        /\ base = Len(reqs)
        /\ budget = Budget(MaxNotifyOps, 0, 1, 1)
        /\ deployment = NewDeployment
        /\ limiter = AfterJoins("1.2.3.4", <<"GATE2345", "ABCDEFG2">>, 2, 0)
        /\ probe = NoProbe

\* a connection closes or, its transport having failed, errors: the handler
\* runs, and the shard serves the disconnect request that reaches it
Depart(ws) ==
    /\ ws \in Sockets(room)
    /\ \E reply \in StubReplies(room, ws) :
          LET out == IF ws \in broken
                     THEN webSocketError(room, ws, broken, reply)
                     ELSE webSocketClose(room, ws, broken, reply)
          IN  /\ room' = out.room
              /\ sent' = out.sent
              /\ last' = Ran(IF ws \in broken THEN "error" ELSE "close",
                             ws, room, NoFrame, out)
              /\ clients' = Deliver(Drop(clients, ws), out.sent)
              /\ limiter' = IF out.notice # NoNotice /\ reply = "delivered"
                            THEN Quota(limiter,
                                       QuotaRequest("/disconnect", out.notice.ip,
                                                    out.notice.roomCode),
                                       now)
                            ELSE limiter
    /\ broken' = broken \ {ws}
    /\ UNCHANGED <<now, acceptLog, nextWs, base, budget, deployment, probe>>

\* the shard of the address is asked for its count and told of joins
NextNotify ==
    \/ \E ws \in Sockets(room) : Depart(ws)
    \/ \E ws \in {w \in Sockets(room) : Fragile(w)} : Break(ws)
    \/ \E request \in {QuotaRequest("/check", "1.2.3.4", ""),
                       QuotaRequest("/connect", "1.2.3.4", "GATE2345")} : Ask(request)
    \/ \E d \in QuotaTicks : Tick(d)

SpecNotify == InitNotify /\ [][NextNotify]_vars

\* the entries of the address that have not expired at time t
LiveEntries(connections, ip, t) ==
    {code \in DOMAIN RoomsOf(connections, ip) :
        ~(t - connections[ip][code] > CONNECTION_TTL)}

\* the last request was served (answered 200) and is of this path
Asked(path) == limiter.last.path = path /\ limiter.last.status = 200

\* ------------------------------------------------------------ shard resolution
\* characters appended to the address, and calls of ipShard on it, in one run
MaxTyped == 2

MaxCalls == 2

\* addresses as the CF-Connecting-IP header gives them, and a string whose
\* hash is -2^31 once its last letter is typed
ShardInputs == {"", "1.2.3.", "2001:db8::", "polygenelubricant"}

ShardChars == {"1", "4", ":", "s", "z"}

StartShard(P) ==
    /\ room = NewRoom
    /\ now = 0
    /\ broken = {}
    /\ sent = << >>
    /\ last = Ran("init", NoSocket, NewRoom, NoFrame,
                  Outcome(NewRoom, << >>, 0, FALSE, NoNotice))
    /\ clients = EmptyMap
    /\ acceptLog = EmptyMap
    /\ nextWs = 1
    /\ base = 0
    /\ budget = Budget(0, 0, 0, 0)
    /\ deployment = NewDeployment
    /\ limiter = NewLimiter
    /\ probe = P

InitShard == \E input \in ShardInputs : StartShard([NoProbe EXCEPT !.input = input])

\* the address grows by one character
Type(ch) ==
    /\ probe.typed < MaxTyped
    /\ probe' = [NoProbe EXCEPT !.input = probe.input \o ch, !.typed = probe.typed + 1]
    /\ UNCHANGED <<room, now, broken, sent, last, clients, acceptLog, nextWs, base,
                   budget, deployment, limiter>>

\* ipShard is called on the address
Resolve ==
    /\ probe.calls < MaxCalls
    /\ LET shard == ipShard(probe.input)
       IN  probe' = [probe EXCEPT !.output = shard,
                                  !.first = IF probe.calls = 0 THEN shard ELSE @,
                                  !.calls = @ + 1]
    /\ UNCHANGED <<room, now, broken, sent, last, clients, acceptLog, nextWs, base,
                   budget, deployment, limiter>>

NextShard ==
    \/ \E ch \in ShardChars : Type(ch)
    \/ Resolve

SpecShard == InitShard /\ [][NextShard]_vars

\* ------------------------------------------------------------ room code codec
\* codes as typed: empty, one character short, in lower case with a space,
\* and a code spread with separators to 19 characters
InitCode ==
    \E input \in {"", "ABCD-EFG", "abcd efg", "ABCDEFG", "A-B-C-D- -E-F-G-2--"} :
        StartShard([NoProbe EXCEPT !.input = input])

\* parseRoomCode is called on the input, and formatRoomCode on its result
Parse ==
    /\ probe.calls < MaxCalls
    /\ LET canonical == parseRoomCode(probe.input)
       IN  probe' = [probe EXCEPT !.output = canonical,
                                  !.display = IF canonical = "" THEN ""
                                              ELSE formatRoomCode(canonical),
                                  !.calls = @ + 1]
    /\ UNCHANGED <<room, now, broken, sent, last, clients, acceptLog, nextWs, base,
                   budget, deployment, limiter>>

NextCode ==
    \/ \E ch \in {"2", "h", "0", "O", "-", " "} : Type(ch)
    \/ Parse

SpecCode == InitCode /\ [][NextCode]_vars

\* ------------------------------------------------------------ code generation
\* crypto.getRandomValues has filled six of the eight bytes, with any one value
InitGenerate ==
    \E b \in 0..255 : StartShard([NoProbe EXCEPT !.bytes = [i \in 1..6 |-> b]])

\* the next random byte is drawn
Draw(b) ==
    /\ Len(probe.bytes) < 8
    /\ probe' = [probe EXCEPT !.bytes = Append(@, b)]
    /\ UNCHANGED <<room, now, broken, sent, last, clients, acceptLog, nextWs, base,
                   budget, deployment, limiter>>

\* generateRoomCode returns the display code, and handleCreate parses it
Generate ==
    /\ Len(probe.bytes) = 8
    /\ probe.calls < MaxCalls
    /\ LET roomCode == generateRoomCode(probe.bytes)
       IN  probe' = [probe EXCEPT !.display = roomCode,
                                  !.output = parseRoomCode(roomCode),
                                  !.calls = @ + 1]
    /\ UNCHANGED <<room, now, broken, sent, last, clients, acceptLog, nextWs, base,
                   budget, deployment, limiter>>

NextGenerate ==
    \/ \E b \in {0, 30, 31, 255} : Draw(b)
    \/ Generate

SpecGenerate == InitGenerate /\ [][NextGenerate]_vars

\* ------------------------------------------------------------ observations
\* the (peerId, displayName) pairs of a Room's sessions
Members(R) ==
    {[peerId |-> R.sockets[i].att.peerId, displayName |-> R.sockets[i].att.displayName] :
        i \in DOMAIN R.sockets}

PeerIds(R) == {R.sockets[i].att.peerId : i \in DOMAIN R.sockets}

\* the sends of the last handler run to ws that carry a frame of the type
SendsOf(ws, type) ==
    {i \in DOMAIN sent : sent[i].to = ws /\ sent[i].frame.type = type}

SendsOfType(type) == {i \in DOMAIN sent : sent[i].frame.type = type}

Joined == last.op = "join" /\ last.status = 101

\* ------------------------------------------------------------ C1
\* C1: a Room never holds more than MAX_PEERS_PER_ROOM sessions; a join that
\* finds the Room full is answered 403, leaves the Room as it was (no session,
\* nextId untouched) and sends no frame, and any other join is answered 101.
C1_RoomCapacity ==
    /\ Len(room.sockets) <= MAX_PEERS_PER_ROOM
    /\ last.op = "join" =>
          IF Len(last.pre.sockets) >= MAX_PEERS_PER_ROOM
          THEN last.status = 403 /\ room = last.pre /\ sent = << >>
          ELSE last.status = 101

\* a join was refused by a Room holding MAX_PEERS_PER_ROOM sessions
C1_Witness ==
    /\ last.op = "join"
    /\ Len(last.pre.sockets) = MAX_PEERS_PER_ROOM
    /\ last.status = 403

C3_PeerJoinedToOthers ==
    Joined =>
        LET me == Attachment(room, last.ws)
        IN  /\ \A ws \in Sockets(last.pre) :
                  /\ Cardinality(SendsOf(ws, "peer-joined")) = 1
                  /\ \A i \in SendsOf(ws, "peer-joined") :
                        /\ sent[i].frame = PeerJoined(me.peerId, me.displayName)
                        /\ sent[i].ok <=> ws \notin last.failed
            /\ SendsOf(last.ws, "peer-joined") = {}
            /\ \A i \in SendsOfType("peer-joined") : sent[i].to \in Sockets(last.pre)

\* a peer joined a Room of at least two sessions
C3_Witness ==
    /\ Joined
    /\ Len(last.pre.sockets) >= 2
    /\ Cardinality(SendsOfType("peer-joined")) >= 2

Dispatched ==
    /\ last.op = "message"
    /\ last.rate = "passed"
    /\ last.message.parsed = "object"
    /\ last.message.type.t = "string"

C8_ChatRelay ==
    (Dispatched /\ last.message.type.v = "chat")
    => LET text == last.message.text
           me == Attachment(last.pre, last.ws)
           others == Sockets(last.pre) \ {last.ws}
       IN  IF text.t = "string" /\ text.len >= 1 /\ text.len <= MAX_CHAT_TEXT
           THEN /\ \A ws \in others :
                      /\ Cardinality(SendsOf(ws, "chat-relay")) = 1
                      /\ \A i \in SendsOf(ws, "chat-relay") :
                            /\ sent[i].frame = ChatRelay(me.peerId, me.displayName,
                                                         text, last.at \div 1000)
                            /\ sent[i].ok <=> ws \notin last.failed
                /\ Len(sent) = Cardinality(others)
                /\ \A i \in DOMAIN sent : sent[i].to \in others
           ELSE sent = <<Send(last.ws, ErrorFrame("Invalid message text"), last.failed)>>

\* a chat text of exactly MAX_CHAT_TEXT characters was relayed to two peers
C8_Witness ==
    /\ Dispatched
    /\ last.message.type.v = "chat"
    /\ last.message.text.len = MAX_CHAT_TEXT
    /\ Cardinality(SendsOfType("chat-relay")) = 2
    /\ SendsOf(last.ws, "chat-relay") = {}

\* ------------------------------------------------------------ C9
\* C9: when a session closes or errors, its peer id has no rate-window entry
\* afterwards (the other entries are untouched), the connection is gone, and
\* the only sends are one peer-left with its id to every remaining connection,
\* none to the closing one.
C9_CloseCleansUp ==
    last.op \in {"close", "error"}
    => LET id == Attachment(last.pre, last.ws).peerId
       IN  /\ room.peerRates = Drop(last.pre.peerRates, id)
           /\ id \notin DOMAIN room.peerRates
           /\ Sockets(room) = Sockets(last.pre) \ {last.ws}
           /\ \A ws \in Sockets(room) :
                  /\ Cardinality(SendsOf(ws, "peer-left")) = 1
                  /\ \A i \in SendsOf(ws, "peer-left") :
                        /\ sent[i].frame = PeerLeft(id)
                        /\ sent[i].ok <=> ws \notin last.failed
           /\ Len(sent) = Cardinality(Sockets(room))
           /\ \A i \in DOMAIN sent : sent[i].to # last.ws

\* a session that had a rate-window entry was ended by webSocketError while
\* two others remained
C9_Witness ==
    /\ last.op = "error"
    /\ Attachment(last.pre, last.ws).peerId \in DOMAIN last.pre.peerRates
    /\ Cardinality(SendsOfType("peer-left")) = 2

\* ------------------------------------------------------------ C5
\* the last handler run was given a frame that parses
Parseable ==
    /\ last.op = "message"
    /\ last.message.len <= MAX_MESSAGE_SIZE
    /\ last.message.parsed # "invalid"

\* every rate-window counter is the number of the peer's frames that passed
\* the check since the window started
CounterIsLog ==
    \A p \in DOMAIN room.peerRates :
        room.peerRates[p].count = AcceptedSince(p, room.peerRates[p].windowStart)

\* C5: a parseable frame passes the rate check when fewer than PEER_MSG_LIMIT
\* frames of the peer have passed in the current window, so the first 30 of a
\* window pass; with 30 passed and the window not elapsed it is answered with
\* the rate-limit error alone and the Room is left as it was; once more than
\* PEER_MSG_WINDOW has elapsed since the window started it opens a new window
\* with count 1 and passes.
C5_WindowLimit ==
    /\ CounterIsLog
    /\ Parseable =>
          LET p == Attachment(last.pre, last.ws).peerId
              pre == last.pre.peerRates
          IN  IF p \notin DOMAIN pre
                 \/ last.at - pre[p].windowStart > PEER_MSG_WINDOW
              THEN /\ last.rate = "passed"
                   /\ room.peerRates[p] = [count |-> 1, windowStart |-> last.at]
              ELSE IF pre[p].count < PEER_MSG_LIMIT
              THEN /\ last.rate = "passed"
                   /\ room.peerRates[p] = [count |-> pre[p].count + 1,
                                           windowStart |-> pre[p].windowStart]
              ELSE /\ last.rate = "limited"
                   /\ sent = <<Send(last.ws, ErrorFrame("Rate limited. Slow down."),
                                    last.failed)>>
                   /\ room = last.pre

\* a peer that had used up its window sent again after the window elapsed
C5_Witness ==
    /\ Parseable
    /\ last.rate = "passed"
    /\ LET p == Attachment(last.pre, last.ws).peerId
       IN  /\ p \in DOMAIN last.pre.peerRates
           /\ last.pre.peerRates[p].count = PEER_MSG_LIMIT
           /\ room.peerRates[p].count = 1

\* ------------------------------------------------------------ C6
\* C6 as stated: in every interval of PEER_MSG_WINDOW milliseconds at most
\* PEER_MSG_LIMIT frames of one peer pass the rate check.
C6_RollingLimit ==
    \A k \in DOMAIN acceptLog :
        AcceptedIn(k[1], k[2], k[2] + PEER_MSG_WINDOW) <= PEER_MSG_LIMIT

\* C6 amended: the limit is per fixed window: at most PEER_MSG_LIMIT frames of
\* a peer pass between two resets of its window, and an interval of
\* PEER_MSG_WINDOW milliseconds, which can straddle a reset, holds at most
\* 2 * PEER_MSG_LIMIT - 1 frames that passed.
C6_FixedWindowLimit ==
    /\ \A p \in DOMAIN room.peerRates :
          /\ room.peerRates[p].count <= PEER_MSG_LIMIT
          /\ room.peerRates[p].count
                = AcceptedSince(p, room.peerRates[p].windowStart)
    /\ \A k \in DOMAIN acceptLog :
          AcceptedIn(k[1], k[2], k[2] + PEER_MSG_WINDOW) <= 2 * PEER_MSG_LIMIT - 1

\* 59 frames of one peer passed within one interval of PEER_MSG_WINDOW
C6_Witness ==
    \E k \in DOMAIN acceptLog :
        AcceptedIn(k[1], k[2], k[2] + PEER_MSG_WINDOW) = 2 * PEER_MSG_LIMIT - 1

\* ------------------------------------------------------------ C10
\* the rooms in which the address holds a live session admitted by the Router
RoomsHeld(ip) ==
    {deployment.origin[ws].room :
        ws \in {w \in Live(deployment) : deployment.origin[w].ip = ip}}

\* C10: at every moment and for every source address, the rooms in which the
\* address holds a live session admitted through the Router's join endpoint
\* number at most MAX_ROOMS_PER_IP.
C10_RoomQuota ==
    \A ip \in SourceIPs : Cardinality(RoomsHeld(ip)) <= MAX_ROOMS_PER_IP

\* ------------------------------------------------------------ C11
\* C11: when every /connect was preceded by an allowed /check of its own join,
\* the entries of an address that have not expired number at most
\* MAX_ROOMS_PER_IP.
C11_QuotaCeiling ==
    limiter.disciplined =>
        \A ip \in QuotaIPs :
            Cardinality(LiveEntries(limiter.connections, ip, now)) <= MAX_ROOMS_PER_IP

\* ------------------------------------------------------------ C12
\* the entries of the address recorded before the last request
Before(ip) == RoomsOf(limiter.last.pre, ip)

\* the entries of the address joined at most two hours before time t
Unexpired(rooms, t) == {code \in DOMAIN rooms : t - rooms[code] <= 2 * 60 * 60 * 1000}

\* C12: a /check of an address at time t removes exactly the entries of the
\* address joined more than two hours before t, keeps the others with their
\* times, leaves every other address alone, and answers count = the number of
\* entries left, allowed = (count < 10), limit = 10; so no entry counted by it
\* was last connected more than two hours earlier.
C12_CheckPrunesThenCounts ==
    Asked("/check") =>
        LET ip == limiter.last.ip
            kept == Unexpired(Before(ip), limiter.last.at)
        IN  /\ RoomsOf(limiter.connections, ip) = [code \in kept |-> Before(ip)[code]]
            /\ \A other \in QuotaIPs \ {ip} :
                  RoomsOf(limiter.connections, other) = Before(other)
            /\ limiter.last.count = Cardinality(kept)
            /\ limiter.last.allowed = (Cardinality(kept) < 10)
            /\ limiter.last.limit = 10

\* a /check removed some entries of the address and kept and counted one that
\* is exactly two hours old
C12_Witness ==
    /\ Asked("/check")
    /\ limiter.last.at = now
    /\ \E gone \in DOMAIN Before(limiter.last.ip) :
          gone \notin DOMAIN RoomsOf(limiter.connections, limiter.last.ip)
    /\ \E code \in DOMAIN RoomsOf(limiter.connections, limiter.last.ip) :
          now - limiter.connections[limiter.last.ip][code] = CONNECTION_TTL
    /\ limiter.last.count >= 1

\* ------------------------------------------------------------ C13
\* C13 as stated: after a /check, /connect or /disconnect of an address, none
\* of the entries recorded for the address is older than two hours.
C13_EveryRequestPrunes ==
    (Asked("/check") \/ Asked("/connect") \/ Asked("/disconnect")) =>
        Unexpired(RoomsOf(limiter.connections, limiter.last.ip), limiter.last.at)
            = DOMAIN RoomsOf(limiter.connections, limiter.last.ip)

\* C13: only /check drops entries older than two hours, and it never counts
\* one; /connect and /disconnect leave every entry of the address other than
\* the pair they name recorded with its time, expired or not.
C13_OnlyCheckPrunes ==
    LET ip == limiter.last.ip
        rooms == RoomsOf(limiter.connections, ip)
    IN  /\ Asked("/check") =>
              /\ Unexpired(rooms, limiter.last.at) = DOMAIN rooms
              /\ limiter.last.count
                    = Cardinality(Unexpired(Before(ip), limiter.last.at))
        /\ (Asked("/connect") \/ Asked("/disconnect")) =>
              \A code \in DOMAIN Before(ip) \ {limiter.last.roomCode} :
                  code \in DOMAIN rooms /\ rooms[code] = Before(ip)[code]

\* a /connect or /disconnect of an address has left an entry of another room
\* of that address recorded that was already older than two hours
C13_Witness ==
    /\ Asked("/connect") \/ Asked("/disconnect")
    /\ \E code \in DOMAIN RoomsOf(limiter.connections, limiter.last.ip) :
          /\ code # limiter.last.roomCode
          /\ limiter.last.at - limiter.connections[limiter.last.ip][code]
                > CONNECTION_TTL

\* ------------------------------------------------------------ C14
\* C14: a /connect for a pair that is already recorded leaves the rooms
\* recorded for the address the same set (one entry for the pair, the count
\* unchanged), leaves the times of its other entries and all other addresses
\* as they were, and sets the time of the pair to the time of the call.
C14_ConnectIdempotent ==
    LET ip == limiter.last.ip
        rooms == RoomsOf(limiter.connections, ip)
    IN  (Asked("/connect") /\ limiter.last.roomCode \in DOMAIN Before(ip)) =>
            /\ DOMAIN rooms = DOMAIN Before(ip)
            /\ Cardinality(DOMAIN rooms) = Cardinality(DOMAIN Before(ip))
            /\ \A code \in DOMAIN rooms \ {limiter.last.roomCode} :
                  rooms[code] = Before(ip)[code]
            /\ \A other \in QuotaIPs \ {ip} :
                  RoomsOf(limiter.connections, other) = Before(other)
            /\ rooms[limiter.last.roomCode] = limiter.last.at

\* a pair recorded at an earlier time has been connected again, among other
\* entries of the address
C14_Witness ==
    /\ Asked("/connect")
    /\ limiter.last.roomCode \in DOMAIN Before(limiter.last.ip)
    /\ Before(limiter.last.ip)[limiter.last.roomCode] < limiter.last.at
    /\ Cardinality(DOMAIN Before(limiter.last.ip)) > 1

\* ------------------------------------------------------------ C15
\* C15: a /disconnect that names an address and a room answers ok, removes
\* exactly that pair, leaves the other entries of the address and all other
\* addresses unchanged, and drops the key of the address with its last entry;
\* for a pair that is not recorded it changes nothing; and in every state no
\* address is recorded with an empty map of rooms.
C15_DisconnectRemovesPair ==
    LET ip == limiter.last.ip
        rest == DOMAIN Before(ip) \ {limiter.last.roomCode}
    IN  /\ (limiter.last.path = "/disconnect" /\ ip # ""
                /\ limiter.last.roomCode # "") =>
              /\ limiter.last.status = 200
              /\ RoomsOf(limiter.connections, ip) = [code \in rest |-> Before(ip)[code]]
              /\ \A other \in QuotaIPs \ {ip} :
                    RoomsOf(limiter.connections, other) = Before(other)
              /\ rest = {} => ip \notin DOMAIN limiter.connections
              /\ limiter.last.roomCode \notin DOMAIN Before(ip) =>
                    limiter.connections = limiter.last.pre
        /\ \A recorded \in DOMAIN limiter.connections :
              DOMAIN limiter.connections[recorded] # {}

\* a /disconnect has removed the last entry of an address, and with it the
\* key, while another address keeps its entries
C15_Witness ==
    /\ Asked("/disconnect")
    /\ DOMAIN Before(limiter.last.ip) = {limiter.last.roomCode}
    /\ limiter.last.ip \notin DOMAIN limiter.connections
    /\ DOMAIN limiter.connections # {}

\* ------------------------------------------------------------ C16
\* the frames the last handler run sent to the connection, in order
FramesTo(ws) ==
    LET RECURSIVE Pick(_)
        Pick(n) == IF n = 0 THEN << >>
                   ELSE IF sent[n].to = ws THEN Append(Pick(n - 1), sent[n].frame)
                   ELSE Pick(n - 1)
    IN  Pick(Len(sent))

\* the last handler run dispatched an offer, answer or ice-candidate with a
\* well-formed target id and payload
RelayableSignal ==
    /\ Dispatched
    /\ last.message.type.v \in {"offer", "answer", "ice-candidate"}
    /\ Truthy(last.message.to)
    /\ last.message.to.t = "string"
    /\ last.message.to.len <= MAX_TARGET_ID
    /\ last.message.type.v \in {"offer", "answer"} =>
          last.message.sdp.t = "string" /\ last.message.sdp.len <= MAX_SDP_SIZE
    /\ last.message.type.v = "ice-candidate" =>
          JsonLen(IF Truthy(last.message.candidate) THEN last.message.candidate
                  ELSE Str("")) <= MAX_ICE_SIZE

\* the target of the last frame is a session whose connection fails on send
TargetSendFails ==
    \E target \in Sockets(last.pre) \cap last.failed :
        Attachment(last.pre, target).peerId = last.message.to.v

\* C16: the sender of an offer, answer or ice-candidate receives the one error
\* frame 'Failed to deliver message' both when the target id is not in the
\* room and when the target is in the room and the send to it fails.
C16_SameDeliveryError ==
    (RelayableSignal
        /\ (last.message.to.v \notin PeerIds(last.pre) \/ TargetSendFails))
    => FramesTo(last.ws) = <<ErrorFrame("Failed to deliver message")>>

\* ------------------------------------------------------------ C17
\* the texts of the error frames of Room.webSocketMessage
ErrorTexts ==
    {"Message too large", "Invalid message", "Rate limited. Slow down.",
     "Invalid target", "Failed to deliver message", "Invalid SDP",
     "Invalid ICE candidate", "Invalid message text", "Unknown message type"}

\* values of `type` the Room does not know, and peer ids that name nobody
UnknownTypes == {"ping", "pong", "welcome", "subscribe"}

UnknownIds == {"peer-99", "peer-98", "nobody"}

\* what the Room of the last frame would have sent, to whom, for another frame
\* in its place
SentFor(message) ==
    webSocketMessage(last.pre, last.ws, message, last.at, last.failed).sent

\* C17: every error frame a Room sends carries one of its fixed texts; a
\* frame with an unknown type is answered exactly as the same frame with any
\* other unknown type, and a signal to a peer id that names nobody exactly as
\* the same signal to any other id that names nobody.
C17_NoReflection ==
    /\ \A n \in DOMAIN sent :
          sent[n].frame.type = "error" => sent[n].frame.message \in ErrorTexts
    /\ (Dispatched /\ last.message.type.v
            \notin {"offer", "answer", "ice-candidate", "chat"}) =>
          \A other \in UnknownTypes :
              SentFor([last.message EXCEPT !.type = Str(other)]) = sent
    /\ (Dispatched /\ last.message.type.v \in {"offer", "answer", "ice-candidate"}
            /\ last.message.to.t = "string" /\ Truthy(last.message.to)
            /\ last.message.to.len <= MAX_TARGET_ID
            /\ last.message.to.v \notin PeerIds(last.pre)) =>
          \A other \in UnknownIds \ PeerIds(last.pre) :
              SentFor([last.message EXCEPT !.to = Str(other)]) = sent

\* a frame of unknown type has been answered with the one error frame, to its
\* sender
C17_Witness ==
    /\ Dispatched
    /\ last.message.type.v = "ping"
    /\ Len(sent) = 1
    /\ sent[1].to = last.ws
    /\ sent[1].frame = ErrorFrame("Unknown message type")

\* ------------------------------------------------------------ C18
\* the rate windows restricted to the peers
Windows(rates, peers) == [p \in DOMAIN rates \cap peers |-> rates[p]]

\* C18: a frame rejected by the rate check causes one send, the rate-limit
\* error to its sender, and leaves the Room as it was; no frame changes the
\* window of a peer other than its sender; and whether a frame is rejected is
\* decided by the sender's window alone, whatever the windows of the others.
C18_RateLimitIsolated ==
    (last.op = "message" /\ last.rate # "none") =>
        LET p == Attachment(last.pre, last.ws).peerId
            pre == last.pre.peerRates
        IN  /\ last.rate = "limited" =>
                  /\ sent = <<Send(last.ws, ErrorFrame("Rate limited. Slow down."),
                                   last.failed)>>
                  /\ room = last.pre
            /\ Windows(room.peerRates, PeerIds(last.pre) \ {p})
                  = Windows(pre, PeerIds(last.pre) \ {p})
            /\ (last.rate = "passed")
                  = isPeerAllowed(Windows(pre, {p}), p, last.at).allowed

\* a peer at its limit has been rejected while another peer of the room, who
\* sent in the same window, keeps its own window
C18_Witness ==
    /\ last.op = "message"
    /\ last.rate = "limited"
    /\ \E other \in DOMAIN room.peerRates :
          /\ other # Attachment(last.pre, last.ws).peerId
          /\ room.peerRates[other].count < PEER_MSG_LIMIT
          /\ room.peerRates[other].windowStart
                >= room.peerRates[Attachment(last.pre, last.ws).peerId].windowStart

\* ------------------------------------------------------------ C19
\* C19: every call of ipShard on an address returns one of shard-0 ..
\* shard-15, also when the hash has wrapped around or is -2^31, and every call
\* on the same address returns what the first call on it returned.
C19_ShardStable ==
    probe.calls >= 1 =>
        /\ probe.output \in {"shard-" \o ToString(n) : n \in 0..15}
        /\ probe.output = probe.first

\* ipShard has been called twice on the string whose hash is -2^31
C19_Witness ==
    /\ probe.calls = 2
    /\ HashFrom(<<0, 0>>, CharCodes(probe.input)) = <<HALF \div 2, 0>>
    /\ probe.output = "shard-0"


\* ------------------------------------------------------------ C20
\* the Room instance of the name as the Worker holds it, NewRoom when it was
\* never reached
Instance(rooms, name) == IF name \in DOMAIN rooms THEN rooms[name] ELSE NewRoom

Variants(d) ==
    {SubSeq(d, 1, i) \o sep \o SubSeq(d, i + 1, Len(d)) :
        i \in 0..Len(d), sep \in {"-", " "}}
    \cup {toLowerCase(d), toUpperCase(d)}

\* C21 as stated: Format(Parse(v)) of every variant v of a valid display code
\* is the canonical display form of the code.
C21_RoundTripAnyVariant ==
    (probe.calls >= 1 /\ probe.output # "") =>
        \A v \in Variants(probe.input) :
            /\ parseRoomCode(v) # ""
            /\ formatRoomCode(parseRoomCode(v)) = probe.display

\* C21: for a valid code d, Format(Parse(d)) is its eight symbols in upper case
\* split 4+4 by a dash, and every variant of d of at most 20 characters gives
\* the same; Parse(Parse(d)) = Parse(d) and Parse(Format(Parse(d))) = Parse(d).
C21_RoundTrip ==
    (probe.calls >= 1 /\ probe.output # "") =>
        /\ Len(probe.display) = 9
        /\ SubSeq(probe.display, 5, 5) = "-"
        /\ SubSeq(probe.display, 1, 4) \o SubSeq(probe.display, 6, 9) = probe.output
        /\ \A i \in 1..8 :
              Includes("ABCDEFGHJKMNPQRSTUVWXYZ23456789", SubSeq(probe.output, i, i))
        /\ \A v \in Variants(probe.input) :
              Len(v) <= 20 =>
                  /\ parseRoomCode(v) = probe.output
                  /\ formatRoomCode(parseRoomCode(v)) = probe.display
        /\ parseRoomCode(probe.output) = probe.output
        /\ parseRoomCode(probe.display) = probe.output

\* a code typed in lower case with a blank has been parsed and formatted
C21_Witness ==
    /\ probe.calls >= 1
    /\ probe.input = "abcd efgh"
    /\ probe.output = "ABCDEFGH"
    /\ probe.display = "ABCD-EFGH"

\* ------------------------------------------------------------ C22
\* C22: Parse returns Invalid for an input of more than 20 characters, for one
\* that does not have 8 characters once dashes and blanks are removed, and for
\* one with a character that in neither case is a symbol of the alphabet; a
\* code it returns has 8 characters, all symbols of the alphabet, and it
\* returns one whenever none of the three holds.
C22_ParseRejects ==
    probe.calls >= 1 =>
        LET kept == {i \in 1..Len(probe.input) :
                        SubSeq(probe.input, i, i) \notin {"-", " "}}
            symbols == "ABCDEFGHJKMNPQRSTUVWXYZ23456789abcdefghjkmnpqrstuvwxyz"
            invalid == \/ Len(probe.input) > 20
                       \/ Cardinality(kept) # 8
                       \/ \E i \in kept : ~Includes(symbols, SubSeq(probe.input, i, i))
        IN  /\ invalid <=> probe.output = ""
            /\ probe.output # "" =>
                  /\ Len(probe.output) = 8
                  /\ \A i \in 1..8 :
                        Includes("ABCDEFGHJKMNPQRSTUVWXYZ23456789",
                                 SubSeq(probe.output, i, i))

\* an input of 8 characters apart from its separators, one of them the letter
\* O, has been found invalid
C22_Witness ==
    /\ probe.calls >= 1
    /\ probe.input = "ABCD-EFGO"
    /\ probe.output = ""

\* ------------------------------------------------------------ C23
\* C23: the alphabet of generateRoomCode has 32 distinct symbols, and over the
\* 256 values of a byte every symbol is selected by the same number of values.
C23_UniformSymbols ==
    LET symbol(b) == SubSeq(generateRoomCode(<<b>>), 1, 1)
        symbols == {symbol(b) : b \in 0..255}
        chosenBy(ch) == Cardinality({b \in 0..255 : symbol(b) = ch})
    IN  Len(probe.bytes) = 8 =>
            /\ Cardinality(symbols) = 32
            /\ \A ch1 \in symbols : \A ch2 \in symbols : chosenBy(ch1) = chosenBy(ch2)

\* ------------------------------------------------------------ C24
\* C24: a code returned by generateRoomCode has nine characters, a dash in the
\* middle and eight symbols of the alphabet around it, parses to those eight
\* symbols, and is the display form of what it parses to.
C24_GeneratedCodeValid ==
    probe.calls >= 1 =>
        /\ Len(probe.display) = 9
        /\ SubSeq(probe.display, 5, 5) = "-"
        /\ \A i \in (1..9) \ {5} :
              Includes("ABCDEFGHJKMNPQRSTUVWXYZ23456789", SubSeq(probe.display, i, i))
        /\ probe.output # ""
        /\ probe.output = SubSeq(probe.display, 1, 4) \o SubSeq(probe.display, 6, 9)
        /\ formatRoomCode(probe.output) = probe.display

\* a code has been generated from bytes that include 255 and 31
C24_Witness ==
    /\ probe.calls >= 1
    /\ probe.bytes = <<255, 255, 255, 255, 255, 255, 31, 30>>
    /\ probe.display = "HHHH-HHA9"

\* ------------------------------------------------------------ C25
\* the requests of one route and address let through at or after a time
AdmittedSince(route, ip, from) ==
    SumLog(deployment.admitted,
           {k \in DOMAIN deployment.admitted :
               k[1] = route /\ k[2] = ip /\ k[3] >= from})

\* C25: per address, the joins let through in the address's current window
\* are at most 10 and the creations at most 5; a request that finds the
\* window full and not elapsed is answered 429, changes no Room, is forwarded
\* nowhere, creates no code and leaves the window as it was; any other request
\* on the join or create route is counted, whatever its code
C25_GateThrottles ==
    LET D == deployment
        g == D.gate
        Entries(route) == IF route = "join" THEN D.joinLimiter ELSE D.createLimiter
        Limit(route) == IF route = "join" THEN JOIN_LIMIT ELSE CREATE_LIMIT
        full == /\ g.count >= Limit(g.route)
                /\ g.at - g.windowStart <= WINDOW_MS
        opens == g.count = 0 \/ g.at - g.windowStart > WINDOW_MS
    IN  /\ \A route \in {"join", "create"} : \A ip \in DOMAIN Entries(route) :
              /\ Entries(route)[ip].count <= Limit(route)
              /\ AdmittedSince(route, ip, Entries(route)[ip].windowStart)
                    = Entries(route)[ip].count
        /\ g.route # "" /\ full =>
              /\ D.response = 429
              /\ D.rooms = D.before
              /\ D.forwarded = ""
              /\ D.created = NewDeployment.created
              /\ Entries(g.route)[g.ip]
                    = [count |-> g.count, windowStart |-> g.windowStart]
        /\ g.route # "" /\ ~full =>
              Entries(g.route)[g.ip]
                 = IF opens THEN [count |-> 1, windowStart |-> g.at]
                   ELSE [count |-> g.count + 1, windowStart |-> g.windowStart]

\* the eleventh join of an address is rejected in the last millisecond of its
\* window
C25_Witness ==
    /\ deployment.gate.route = "join"
    /\ deployment.gate.count = JOIN_LIMIT
    /\ deployment.gate.at = WINDOW_MS
    /\ deployment.gate.windowStart = 0
    /\ deployment.asked = "ABCD-EFGK"
    /\ deployment.response = 429

\* ------------------------------------------------------------ C26
\* C26: the sessions of a Room carry ids 'peer-n' whose n grows in the order
\* they joined; a successful join is given an id that no session the Room
\* holds carries, and a lookup by the id of a session finds that session and
\* no other
C26_PeerIdsUnique ==
    LET Number(i) == CHOOSE n \in 0..(Len(room.sockets) + room.nextId) :
                        \/ room.sockets[i].att.peerId = PeerId(n)
                        \/ n = 0 /\ \A m \in 1..(Len(room.sockets) + room.nextId) :
                                       room.sockets[i].att.peerId # PeerId(m)
    IN  /\ Joined => Attachment(room, last.ws).peerId \notin PeerIds(last.pre)
        /\ \A i \in DOMAIN room.sockets :
              /\ \A j \in DOMAIN room.sockets : i < j => Number(i) < Number(j)
              /\ findPeerSocket(room, room.sockets[i].att.peerId) = room.sockets[i].ws
              /\ Cardinality({j \in DOMAIN room.sockets :
                                room.sockets[j].att.peerId
                                   = room.sockets[i].att.peerId}) = 1

\* ------------------------------------------------------------ C28
\* C28: the attachment of every session admitted through handleJoin holds the
\* address the join request came from and the canonical code of the Room it
\* was routed to
C28_AttachmentHoldsOrigin ==
    \A ws \in Live(deployment) :
        LET origin == deployment.origin[ws]
            info == Attachment(deployment.rooms[origin.room], ws)
        IN  /\ info.clientIP = origin.ip
            /\ info.roomCode = origin.room

\* ------------------------------------------------------------ C29
\* C29: when a session whose attachment holds an address other than 'unknown'
\* and a room code closes or errors, the handler sends the shard
\* ipShard(address) a disconnect for (address, room code); served by the
\* shard, the request removes the pair, and no /check brings a pair back, so
\* the room is not counted for the address by a later check
C29_CloseReleasesQuota ==
    [][ /\ last' # last /\ last'.op \in {"close", "error"} =>
            LET info == Attachment(room, last'.ws)
                notice == last'.notice
            IN  info.clientIP # "unknown" /\ info.roomCode # "" =>
                  /\ notice.ip = info.clientIP
                  /\ notice.roomCode = info.roomCode
                  /\ notice.shard = ipShard(info.clientIP)
                  /\ notice.reply = "delivered" =>
                        /\ limiter'.last.path = "/disconnect"
                        /\ limiter'.last.ip = info.clientIP
                        /\ limiter'.last.roomCode = info.roomCode
                        /\ limiter'.last.pre = limiter.connections
                        /\ limiter'.last.status = 200
                        /\ info.roomCode \notin
                              DOMAIN RoomsOf(limiter'.connections, info.clientIP)
        /\ limiter' # limiter /\ limiter'.last.path = "/check" =>
              /\ \A ip \in DOMAIN limiter'.connections :
                    DOMAIN RoomsOf(limiter'.connections, ip)
                       \subseteq DOMAIN RoomsOf(limiter.connections, ip)
              /\ limiter'.last.count
                    = Cardinality(DOMAIN RoomsOf(limiter'.connections,
                                                 limiter'.last.ip))
      ]_vars

\* the shard held two rooms for the address, was told of the close of a
\* session in one of them, and counts one room at the check that follows
C29_Witness ==
    /\ last.op \in {"close", "error"}
    /\ last.notice.reply = "delivered"
    /\ limiter.last.path = "/check"
    /\ limiter.last.ip = last.notice.ip
    /\ limiter.last.count = 1
    /\ limiter.last.at = last.at
    /\ DOMAIN RoomsOf(limiter.last.pre, last.notice.ip) = {"ABCDEFG2"}

\* ------------------------------------------------------------ C30
\* C30: whatever becomes of the disconnect request (served, not served,
\* thrown), the close handler leaves the same Room and has sent the same
\* frames, the rate window of the peer removed and peer-left sent to the
\* others, and throws nothing; one request at most is sent per close, and a
\* request that is not served changes nothing in the shard
C30_CloseIgnoresNotification ==
    [][ last' # last /\ last'.op \in {"close", "error"} =>
           LET info == Attachment(room, last'.ws)
               others == Sockets(room) \ {last'.ws}
           IN  /\ \A reply \in StubReplies(room, last'.ws) \cup {"delivered", "throws"} :
                     /\ webSocketClose(room, last'.ws, broken, reply).room = room'
                     /\ webSocketClose(room, last'.ws, broken, reply).sent = sent'
                     /\ webSocketError(room, last'.ws, broken, reply).room = room'
                     /\ webSocketError(room, last'.ws, broken, reply).sent = sent'
               /\ info.peerId \notin DOMAIN room'.peerRates
               /\ Sockets(room') = others
               /\ {sent'[i].to : i \in DOMAIN sent'} = others
               /\ \A i \in DOMAIN sent' : sent'[i].frame = PeerLeft(info.peerId)
               /\ ~last'.threw
               /\ last'.notice.reply # "delivered" => limiter' = limiter
               /\ last'.notice.reply = "delivered" =>
                     limiter'.last.at = now /\ limiter'.last.path = "/disconnect"
      ]_vars

\* a session with a known address closes while others are in the Room, and
\* the request to the shard throws
C30_Witness ==
    /\ last.op = "close"
    /\ last.notice.reply = "throws"
    /\ last.notice.ip = "1.2.3.4"
    /\ Len(sent) >= 2
    /\ Len(room.sockets) = Len(last.pre.sockets) - 1

\* ------------------------------------------------------------ C27
\* C27: with sessions in several Rooms, every frame a Room sends in handling
\* a join, a message or a close goes to a connection of that same Room, a
\* join or a message leaves the other Rooms as they were, and an offer, answer
\* or ice-candidate whose target id no session of the sender's Room carries is
\* answered 'Failed to deliver message' to the sender and sent to nobody, even
\* when a session of another Room carries that id
C27_RoomsIsolated ==
    LET D == deployment
        e == D.event
        Held(rooms, name) == IF name \in DOMAIN rooms THEN PeerIds(rooms[name]) ELSE {}
    IN  /\ \A i \in DOMAIN D.frames :
              /\ D.frames[i].to \in DOMAIN D.origin
              /\ D.origin[D.frames[i].to].room = e.room
              /\ D.frames[i].to \in Sockets(D.rooms[e.room]) \cup {e.ws}
        /\ e.op \in {"join", "message"} =>
              \A name \in (DOMAIN D.rooms \cup DOMAIN D.before) \ {e.room} :
                  /\ name \in DOMAIN D.rooms /\ name \in DOMAIN D.before
                  /\ D.rooms[name] = D.before[name]
        /\ e.op = "" => D.frames = << >>
        /\ /\ e.op = "message"
           /\ e.type \in {"offer", "answer", "ice-candidate"}
           /\ e.to \notin Held(D.before, e.room)
           => D.frames = <<Send(e.ws, ErrorFrame("Failed to deliver message"), {})>>

\* a session of the Room that holds peer-1 alone sends an offer to peer-2,
\* which another Room holds, and is told the frame was not delivered
C27_Witness ==
    /\ deployment.event.op = "message"
    /\ deployment.event.type = "offer"
    /\ deployment.event.to = "peer-2"
    /\ deployment.event.room = "ABCDEFG2"
    /\ PeerIds(deployment.before["ABCDEFG2"]) = {"peer-1"}
    /\ "peer-2" \in PeerIds(deployment.before["ABCDEFG3"])
    /\ deployment.frames
          = <<Send(deployment.event.ws, ErrorFrame("Failed to deliver message"), {})>>

\* ------------------------------------------------------------ C31
\* C31: the broadcast of a join (peer-joined) and of a close or error
\* (peer-left) attempts one send of the same frame to every connection of the
\* Room but the excluded one, in getWebSockets() order; the sends to
\* connections whose transport has not failed are delivered wherever the
\* failed ones stand in that order, and the handler ends without an exception
C31_BroadcastIsolatesFailures ==
    (Joined \/ last.op \in {"close", "error"}) =>
        LET type == IF last.op = "join" THEN "peer-joined" ELSE "peer-left"
            cast == SelectSeq(sent, LAMBDA x : x.frame.type = type)
            to == SelectSeq(getWebSockets(last.pre), LAMBDA x : x.ws # last.ws)
        IN  /\ Len(cast) = Len(to)
            /\ \A i \in DOMAIN cast :
                  /\ cast[i].to = to[i].ws
                  /\ cast[i].frame = cast[1].frame
                  /\ cast[i].ok <=> cast[i].to \notin last.failed
            /\ ~last.threw

\* a broadcast in which the send to a connection fails while connections
\* before and after it in the order are delivered the frame
C31_Witness ==
    /\ last.op = "close"
    /\ \E i, j, k \in DOMAIN sent :
          /\ i < j /\ j < k
          /\ sent[i].ok /\ ~sent[j].ok /\ sent[k].ok
          /\ sent[i].frame.type = "peer-left"
          /\ sent[k].frame = sent[i].frame

\* ------------------------------------------------------------ C32
\* C32: every offer or answer a Room sends carries a string sdp of at most
\* MAX_SDP_SIZE characters, every ice-candidate it sends carries no candidate
\* or one whose JSON text has at most MAX_ICE_SIZE characters, every
\* chat-relay carries a text of 1 to MAX_CHAT_TEXT characters, and a frame of
\* more than MAX_MESSAGE_SIZE characters is answered 'Message too large'
\* before it is parsed: it is not counted, not dispatched, and leaves the Room
\* as it was
C32_PayloadLimits ==
    /\ \A i \in DOMAIN sent :
          LET f == sent[i].frame
          IN  /\ f.type \in {"offer", "answer"} =>
                    f.sdp.t = "string" /\ f.sdp.len <= MAX_SDP_SIZE
              /\ f.type = "ice-candidate" =>
                    f.candidate = U \/ JsonLen(f.candidate) <= MAX_ICE_SIZE
              /\ f.type = "chat-relay" =>
                    /\ f.text.t = "string"
                    /\ f.text.len >= 1
                    /\ f.text.len <= MAX_CHAT_TEXT
    /\ (last.op = "message" /\ last.message.len > MAX_MESSAGE_SIZE) =>
          /\ last.rate = "none"
          /\ room = last.pre
          /\ Len(sent) = 1
          /\ sent[1].to = last.ws
          /\ sent[1].frame = ErrorFrame("Message too large")

\* an offer whose sdp has exactly MAX_SDP_SIZE characters is forwarded
C32_Witness ==
    /\ last.op = "message"
    /\ last.message.type = Str("offer")
    /\ last.message.sdp.len = MAX_SDP_SIZE
    /\ \E i \in DOMAIN sent :
          /\ sent[i].frame.type = "offer"
          /\ sent[i].frame.sdp.len = MAX_SDP_SIZE
          /\ sent[i].to # last.ws

\* ------------------------------------------------------------ C33
\* the last handler run dispatched an offer or answer whose sdp is missing,
\* not a string or longer than MAX_SDP_SIZE, or an ice-candidate whose
\* candidate is longer than MAX_ICE_SIZE, with a well-formed target id
InvalidPayloadSignal ==
    /\ Dispatched
    /\ last.message.type.v \in {"offer", "answer", "ice-candidate"}
    /\ Truthy(last.message.to)
    /\ last.message.to.t = "string"
    /\ last.message.to.len <= MAX_TARGET_ID
    /\ ~RelayableSignal

\* C33: an offer or answer with an invalid sdp, or an ice-candidate with an
\* oversized candidate, is answered with the same frames whichever peer id
\* its `to` carries, that of a session of the Room or one that names nobody.
C33_ErrorHidesMembership ==
    InvalidPayloadSignal =>
        \A id \in TargetIds(last.pre) :
            SentFor([last.message EXCEPT !.to = Str(id)]) = sent

\* ------------------------------------------------------------ C34
\* C34: the handler of a frame ends without an exception, having sent either
\* nothing to the sender (the frame was forwarded or broadcast) or exactly one
\* error frame to the sender and nothing to anyone else; a frame within the
\* size and rate limits whose payload is not a JSON object with a string
\* `type` is answered 'Invalid message'.
C34_FramesHandledTotally ==
    last.op = "message" =>
        /\ ~last.threw
        /\ \/ /\ FramesTo(last.ws) = << >>
              /\ \A i \in DOMAIN sent :
                    sent[i].frame.type
                        \in {"offer", "answer", "ice-candidate", "chat-relay"}
           \/ /\ Len(sent) = 1
              /\ sent[1].to = last.ws
              /\ sent[1].frame.type = "error"
        /\ (/\ last.message.len <= MAX_MESSAGE_SIZE
            /\ last.rate # "limited"
            /\ (last.message.parsed # "object" \/ last.message.type.t # "string"))
           => FramesTo(last.ws) = <<ErrorFrame("Invalid message")>>

\* ------------------------------------------------------------ C35
\* C35: a frame of more than MAX_MESSAGE_SIZE characters, or one that fails to
\* parse, leaves the rate windows as they were. A frame that parses is
\* counted in its sender's window (one more in the current window, or the
\* first of a new one) whatever becomes of it afterwards, unless the window
\* holds PEER_MSG_LIMIT frames and has not elapsed: then the frame is
\* answered with the rate-limit error and the window keeps its count and its
\* start.
C35_WhatIsCounted ==
    last.op = "message" =>
        LET p == Attachment(last.pre, last.ws).peerId
            pre == last.pre.peerRates
            full == /\ p \in DOMAIN pre
                    /\ pre[p].count >= PEER_MSG_LIMIT
                    /\ last.at - pre[p].windowStart <= PEER_MSG_WINDOW
        IN  IF ~Parseable
            THEN room.peerRates = pre
            ELSE IF full
            THEN /\ room.peerRates = pre
                 /\ FramesTo(last.ws) = <<ErrorFrame("Rate limited. Slow down.")>>
            ELSE /\ last.rate = "passed"
                 /\ p \in DOMAIN room.peerRates
                 /\ room.peerRates[p]
                       = IF p \notin DOMAIN pre
                            \/ last.at - pre[p].windowStart > PEER_MSG_WINDOW
                         THEN [count |-> 1, windowStart |-> last.at]
                         ELSE [count |-> pre[p].count + 1,
                               windowStart |-> pre[p].windowStart]

\* a frame that parsed and was then rejected for its fields has been counted
\* in a window that holds earlier frames
C35_Witness ==
    /\ last.op = "message"
    /\ last.message.type = Str("offer")
    /\ FramesTo(last.ws) = <<ErrorFrame("Invalid SDP")>>
    /\ LET p == Attachment(last.pre, last.ws).peerId
       IN  /\ p \in DOMAIN last.pre.peerRates
           /\ room.peerRates[p].count = last.pre.peerRates[p].count + 1
           /\ room.peerRates[p].windowStart = last.pre.peerRates[p].windowStart

\* ------------------------------------------------------------ C36
\* C36: with the Room constructed again over connections that are still
\* accepted, a join is given a peer id that none of the sessions before it
\* carries, and findPeerSocket resolves the id of every session to the
\* connection of that session.
C36_IdsSurviveWake ==
    /\ Joined => Attachment(room, last.ws).peerId \notin PeerIds(last.pre)
    /\ \A ws \in Sockets(room) :
          findPeerSocket(room, Attachment(room, ws).peerId) = ws

\* ------------------------------------------------------------ C37
\* C37: every key of the rate-window map of a Room is the peer id of one of
\* its sessions and every window counts between 1 and PEER_MSG_LIMIT frames;
\* a Room without sessions has no rate window.
C37_RateKeysLive ==
    /\ DOMAIN room.peerRates \subseteq PeerIds(room)
    /\ \A p \in DOMAIN room.peerRates :
          /\ room.peerRates[p].count >= 1
          /\ room.peerRates[p].count <= PEER_MSG_LIMIT
    /\ room.sockets = << >> => room.peerRates = EmptyMap

\* the last session of the Room has closed with its window full
C37_Witness ==
    /\ last.op = "close"
    /\ room.sockets = << >>
    /\ \E p \in DOMAIN last.pre.peerRates :
          last.pre.peerRates[p].count = PEER_MSG_LIMIT
    /\ room.peerRates = EmptyMap

\* ------------------------------------------------------------ C38
\* C38: when the close callback runs for a connection whose session the error
\* callback has already ended, no peer-left frame is sent again and no second
\* disconnect request goes to the limiter.
C38_EndedOnce ==
    [][(last.op = "error" /\ last'.op = "close" /\ last'.ws = last.ws) =>
          /\ \A i \in DOMAIN sent' : sent'[i].frame.type # "peer-left"
          /\ last'.notice = NoNotice]_vars

\* ------------------------------------------------------------ C39
\* C39: when a session closes or errors while another session of the Room
\* carries the same address and room code, the entry the shard holds for that
\* address and room is still held after the disconnect request of the close
\* has been served.
C39_SharedEntryKept ==
    [][ \A other \in Sockets(room') :
           (/\ last' # last
            /\ last'.op \in {"close", "error"}
            /\ Attachment(room', other).clientIP = Attachment(room, last'.ws).clientIP
            /\ Attachment(room', other).roomCode = Attachment(room, last'.ws).roomCode
            /\ Attachment(room', other).roomCode
                  \in DOMAIN RoomsOf(limiter.connections,
                                     Attachment(room', other).clientIP))
           => Attachment(room', other).roomCode
                 \in DOMAIN RoomsOf(limiter'.connections,
                                    Attachment(room', other).clientIP)
      ]_vars

\* ------------------------------------------------------------ C40
\* C40: of two sessions of a Room, the one that joined later has created its
\* connection to the other as the initiator (it sends the offer) and the one
\* that joined earlier has not; and no client holds a connection to its own
\* peer id.
C40_GlareFree ==
    /\ \A i, j \in DOMAIN room.sockets :
          LET early == room.sockets[i]
              late == room.sockets[j]
          IN  i < j =>
                /\ (late.ws \in DOMAIN clients /\ late.ws \notin broken) =>
                      /\ early.att.peerId \in DOMAIN clients[late.ws].peers
                      /\ clients[late.ws].peers[early.att.peerId]
                /\ (early.ws \in DOMAIN clients
                    /\ late.att.peerId \in DOMAIN clients[early.ws].peers) =>
                      ~clients[early.ws].peers[late.att.peerId]
    /\ \A ws \in DOMAIN clients : clients[ws].me \notin DOMAIN clients[ws].peers

====
